---- MODULE Spec2Model ----
(***************************************************************************)
(* Purchase-order state-transition engine of api-warolabs:                 *)
(*   app/services/purchase_tracking_service.py  (session transitions)      *)
(*   app/services/purchases_service.py          (create / read / update)   *)
(*   app/services/supplier_portal_service.py    (token portal)             *)
(*   app/services/attachments_service.py        (attachment CRUD)          *)
(*   app/database.py                            (transaction scope)        *)
(* The database tables are the state; every handler is one action that     *)
(* runs inside the transaction opened by get_db_connection.  A second      *)
(* specification (ConcSpec) splits a transition into its SQL statements    *)
(* to study two requests racing on one purchase row.                       *)
(***************************************************************************)
EXTENDS Integers, Sequences, FiniteSets, TLC

NULL == "NULL"

(***************************************************************************)
(* Universe of the model                                                   *)
(***************************************************************************)
Tenants == {"tA", "tB"}
PurchaseIds == {1}
Ingredients == {"i1", "i2"}
Tokens == {"tokS1", "tokS2", "tokBad"}
\* cap on the rows of purchase_status_history (keeps the paid/invoiced cycle finite)
MaxHistory == 7
\* the same cap where update_purchase is explored as well
MaxEditHistory == 3
\* cap on the rows of purchase_attachments
MaxAttachments == 1
\* number of update_purchase calls explored
MaxUpdates == 1
\* create_purchase requests in flight together in NumberSpec
MaxCreators == 3
\* longest list of files a request is checked with
MaxFiles == 3
\* cap on the history rows in NotifySpec
MaxNotifyHistory == 2
\* purchases created in PriceSpec
MaxPricePurchases == 2
\* cap on the history rows in PriceSpec
MaxPriceHistory == 2
\* cap on the history rows in PriceFrameSpec
MaxFrameHistory == 5
\* cap on the history rows in AuthSpec
MaxAuthHistory == 3
\* most attachment rows in the table read by DetailSpec
MaxDetailRows == 2
\* caps on the history and attachment rows in LegalSpec
MaxLegalHistory == 4
MaxLegalAttachments == 2
\* RenumberSpec: purchases created, purchase_number updates, and the numbers an
\* update may write
MaxRenumberPurchases == 3
MaxRenumberUpdates == 2
MaxRenumberNumber == 4
\* BlobSpec: history rows and attachment rows over both purchases
MaxBlobHistory == 4
MaxBlobAttachments == 2
MaxTokens == 2
MaxSessions == 3
MaxInvoiceDate == 2
MaxCreditDays == 2
MaxInvoiceAmount == 2

\* app/models/purchase.py PurchaseStatus
Statuses ==
  {"quotation", "pending", "confirmed", "preparing", "shipped",
   "partially_received", "received", "verified", "invoiced", "paid",
   "cancelled", "overdue"}

\* server time written by NOW(); only "set / not set" is observed
NOW == "now"

\* tenant_suppliers rows: id, owning tenant, access_token
tenant_suppliers ==
  [s \in {"S1", "S2"} |->
     IF s = "S1" THEN [id |-> "S1", tenant_id |-> "tA", access_token |-> "tokS1"]
                 ELSE [id |-> "S2", tenant_id |-> "tB", access_token |-> "tokS2"]]

Suppliers == DOMAIN tenant_suppliers

\* ingredients catalog: canonical unit per ingredient
ingredients == [i \in Ingredients |-> IF i = "i1" THEN "kg" ELSE "l"]

\* the session user of a tenant (SessionContext.user_id)
UserOf(t) == IF t = "tA" THEN "uA" ELSE "uB"

(***************************************************************************)
(* State transition rules                                                  *)
(***************************************************************************)
\* faulty variant: the table with shipping straight from confirmed / preparing
TransitionsWithDirectShipping ==
  [s \in Statuses |->
     CASE s = "quotation"          -> {"pending", "cancelled"}
       [] s = "pending"            -> {"confirmed", "cancelled"}
       [] s = "confirmed"          -> {"preparing", "shipped", "paid", "invoiced", "cancelled"}
       [] s = "preparing"          -> {"shipped", "paid", "invoiced", "cancelled"}
       [] s = "paid"               -> {"invoiced"}
       [] s = "invoiced"           -> {"shipped"}
       [] s = "shipped"            -> {"received", "partially_received", "overdue"}
       [] s = "partially_received" -> {"received", "overdue"}
       [] s = "received"           -> {"verified"}
       [] s = "verified"           -> {"paid"}
       [] s = "cancelled"          -> {}
       [] s = "overdue"            -> {"shipped", "received", "cancelled"}]

STATE_TRANSITIONS ==
  [s \in Statuses |->
     CASE s = "quotation"          -> {"pending", "cancelled"}
       [] s = "pending"            -> {"confirmed", "cancelled"}
       [] s = "confirmed"          -> {"preparing", "paid", "invoiced", "cancelled"}
       [] s = "preparing"          -> {"paid", "invoiced", "cancelled"}
       [] s = "paid"               -> {"invoiced"}
       [] s = "invoiced"           -> {"shipped"}
       [] s = "shipped"            -> {"received", "partially_received", "overdue"}
       [] s = "partially_received" -> {"received", "overdue"}
       [] s = "received"           -> {"verified"}
       [] s = "verified"           -> {"paid"}
       [] s = "cancelled"          -> {}
       [] s = "overdue"            -> {"shipped", "received", "cancelled"}]

\* faulty variant: a lookup that offers every status as a next state
AllowedFromAnywhere(from_status) == Statuses

\* STATE_TRANSITIONS.get(from_status, [])
AllowedFrom(from_status) ==
  IF from_status \in DOMAIN STATE_TRANSITIONS
    THEN STATE_TRANSITIONS[from_status] ELSE {}

\* faulty variant: a validation that lets every transition through
AcceptAnyTransition(from_status, to_status) == TRUE

validate_state_transition(from_status, to_status) ==
  to_status \in AllowedFrom(from_status)

(***************************************************************************)
(* State                                                                   *)
(***************************************************************************)
VARIABLES
  purchases,     \* tenant_purchases: sequence of rows, index = purchase id
  items,         \* tenant_purchase_items: sequence of rows, index = item id
  history,       \* purchase_status_history: per purchase, rows in changed_at order
  attachments,   \* purchase_attachments: per purchase, rows in upload order
  updates,       \* number of update_purchase calls served so far
  limits,        \* the caps of the specification being explored
  response,      \* the request just served and what the handler answered
  txs,           \* ConcSpec: the open transaction of each request
  rowlock,       \* ConcSpec: owner of the row lock on each purchase row
  vin, vout,     \* ValidateSpec: arguments and result of the pure function
  blobs,         \* the S3/R2 bucket: the keys that hold an object
  magic_tokens,  \* table magic_tokens, one row per link sent
  sessions       \* table sessions, one row per login or tenant switch

vars == <<purchases, items, history, attachments, updates, limits, response,
          txs, rowlock, vin, vout, blobs, magic_tokens, sessions>>

dbvars == <<purchases, items, history, attachments>>

\* the four tables as one value, for snapshots and rollbacks
DB == [purchases |-> purchases, items |-> items,
       history |-> history, attachments |-> attachments]

EmptyDB ==
  [purchases   |-> << >>,
   items       |-> << >>,
   history     |-> [p \in PurchaseIds |-> << >>],
   attachments |-> [p \in PurchaseIds |-> << >>]]


(***************************************************************************)
(* Rows and SQL helpers                                                    *)
(***************************************************************************)
\* SQL NULL of a numeric column (amounts are never negative)
NONE == -1

\* what an HTTPException detail names: the set `reports` lists which of
\* current status / attempted status / legal next states the text carries
Detail(kind, reports, current, target, allowed) ==
  [kind |-> kind, reports |-> reports, current |-> current,
   target |-> target, allowed |-> allowed]

NoDetail == Detail("none", {}, NULL, NULL, {})

Request(caller, purchase_id, arg) ==
  [caller |-> caller, purchase_id |-> purchase_id, arg |-> arg]

\* a handler's outcome: the tables it leaves behind and its HTTP answer
Reply(db, status_code, detail, body) ==
  [db |-> db, status_code |-> status_code, detail |-> detail, body |-> body]

\* a tenant_purchases row as INSERTed by create_purchase
NewPurchase(tenant_id, supplier_id, purchase_number, status, total_amount, user_id) ==
  [tenant_id |-> tenant_id, supplier_id |-> supplier_id,
   purchase_number |-> purchase_number, status |-> status,
   total_amount |-> total_amount, tax_amount |-> NONE, created_by |-> user_id,
   confirmation_number |-> NULL, tracking_number |-> NULL,
   package_condition |-> NULL, received_by |-> NULL, verified_by |-> NULL,
   invoice_number |-> NULL, invoice_amount |-> NONE,
   payment_reference |-> NULL, cancellation_reason |-> NULL,
   confirmed_at |-> NULL, shipped_at |-> NULL, received_at |-> NULL,
   verified_at |-> NULL, invoiced_at |-> NULL, paid_at |-> NULL,
   cancelled_at |-> NULL]

\* a tenant_purchase_items row
NewItem(purchase_id, item_data, total_cost) ==
  [purchase_id |-> purchase_id, ingredient_id |-> item_data.ingredient_id,
   quantity |-> item_data.quantity, unit |-> item_data.unit,
   unit_cost |-> item_data.unit_cost, total_cost |-> total_cost,
   notes |-> NULL, quantity_received |-> NONE, quality_status |-> NULL,
   deleted |-> FALSE]

\* SELECT ... FROM tenant_purchases WHERE id = $1 AND tenant_id = $2
PurchaseOfTenant(db, purchase_id, tenant_id) ==
  /\ purchase_id \in DOMAIN db.purchases
  /\ db.purchases[purchase_id].tenant_id = tenant_id

\* SELECT ... FROM tenant_purchases WHERE id = $1 AND supplier_id = $2
PurchaseOfSupplier(db, purchase_id, supplier_id) ==
  /\ purchase_id \in DOMAIN db.purchases
  /\ db.purchases[purchase_id].supplier_id = supplier_id

\* SELECT id, tenant_id FROM tenant_suppliers WHERE access_token = $1
SupplierOfToken(token) ==
  {s \in Suppliers : tenant_suppliers[s].access_token = token}

\* UPDATE tenant_purchases SET <fields> WHERE id = $n
UpdatePurchaseRow(db, purchase_id, fields) ==
  IF purchase_id \notin DOMAIN db.purchases THEN db
  ELSE [db EXCEPT !.purchases[purchase_id] =
          [f \in DOMAIN @ |-> IF f \in DOMAIN fields THEN fields[f] ELSE @[f]]]

\* UPDATE tenant_purchase_items SET <fields> WHERE <the row is one of ids>
UpdateItemRows(db, ids, fields) ==
  [db EXCEPT !.items =
     [i \in DOMAIN @ |->
        IF ~@[i].deleted /\ i \in ids
          THEN [f \in DOMAIN @[i] |->
                  IF f \in DOMAIN fields THEN fields[f] ELSE @[i][f]]
          ELSE @[i]]]

\* the live item rows of a purchase (SELECT ... WHERE purchase_id = $1)
ItemIdsOf(db, purchase_id) ==
  {i \in DOMAIN db.items :
     ~db.items[i].deleted /\ db.items[i].purchase_id = purchase_id}

\* the keys of the metadata JSON that are read back later
Metadata(document_type) ==
  [document_type |-> document_type, numero_factura_legal |-> NULL]

\* faulty variant: the history INSERT is skipped
NoHistoryEntry(db, purchase_id, tenant_id, from_status, to_status, changed_by, metadata) ==
  db

\* INSERT INTO purchase_status_history (...)
create_status_history_entry(db, purchase_id, tenant_id, from_status, to_status, changed_by, metadata) ==
  [db EXCEPT !.history[purchase_id] =
     Append(@, [purchase_id |-> purchase_id, tenant_id |-> tenant_id,
                from_status |-> from_status, to_status |-> to_status,
                changed_by |-> changed_by, metadata |-> metadata])]

\* faulty variant: a scope that commits even when its body raised
RollbackKeepsWrites(before, after, raised) == after

\* async with pool.acquire() / connection.transaction(): commit on normal exit,
\* roll back when the body raised
get_db_connection(before, after, raised) ==
  IF raised THEN before ELSE after

\* faulty variant: a row is written for every file, uploaded or not
RowsForEveryFile(tenant_id, purchase_id, user_id, files, attachment_type) ==
  [i \in 1..Len(files) |->
     [tenant_id |-> tenant_id, purchase_id |-> purchase_id,
      file_name |-> files[i].name, attachment_type |-> attachment_type,
      uploaded_by |-> user_id]]

\* one file of a multipart request: `stored` tells whether upload_file returns a key
UploadedRows(tenant_id, purchase_id, user_id, files, attachment_type) ==
  LET ok == SelectSeq(files, LAMBDA f : f.stored)
  IN [i \in 1..Len(ok) |->
        [tenant_id |-> tenant_id, purchase_id |-> purchase_id,
         file_name |-> ok[i].name, attachment_type |-> attachment_type,
         uploaded_by |-> user_id]]

\* for each file: upload to S3/R2, and when a key came back INSERT INTO
\* purchase_attachments; a failed file is skipped
upload_purchase_attachments(db, tenant_id, purchase_id, user_id, files, attachment_type) ==
  [db EXCEPT !.attachments[purchase_id] =
     @ \o UploadedRows(tenant_id, purchase_id, user_id, files, attachment_type)]

(***************************************************************************)
(* Session transitions (purchase_tracking_service.py)                      *)
(***************************************************************************)
NotFound == Detail("not_found", {}, NULL, NULL, {})
InternalError == Detail("internal_error", {}, NULL, NULL, {})

\* "Cannot transition from {current} to {target}"
CannotTransition(current, target) ==
  Detail("invalid_transition", {"current", "target"}, current, target, {})

\* The body every transition handler shares, inside get_db_connection() and
\* conn.transaction(): load by (id, tenant_id), validate, UPDATE the purchase
\* (and its items), INSERT the history row, ingest the files.  `fault` makes
\* the history INSERT raise.  `accepted` is the set of statuses the handler's
\* check lets through, `rejected` its error text per status, `written` the
\* tables after its UPDATEs.
TransitionTx(db, tenant_id, purchase_id, target, accepted, rejected, written, metadata, files, attachment_type, fault) ==
  IF ~PurchaseOfTenant(db, purchase_id, tenant_id)
    THEN Reply(get_db_connection(db, db, TRUE), 404, NotFound, << >>)
    ELSE
      LET current_status == db.purchases[purchase_id].status
          logged == create_status_history_entry(
                      written, purchase_id, tenant_id, current_status, target,
                      UserOf(tenant_id), metadata)
          stored == upload_purchase_attachments(
                      logged, tenant_id, purchase_id, UserOf(tenant_id),
                      files, attachment_type)
      IN IF current_status \notin accepted
           THEN Reply(get_db_connection(db, db, TRUE), 400,
                      rejected[current_status], << >>)
         ELSE IF fault
           THEN Reply(get_db_connection(db, written, TRUE), 500,
                      InternalError, << >>)
         ELSE Reply(get_db_connection(db, stored, FALSE), 200, NoDetail, << >>)

\* faulty variant: a confirmation that also resets the total
ConfirmResetsTotal(db, tenant_id, purchase_id, data, fault) ==
  TransitionTx(db, tenant_id, purchase_id, "confirmed",
    {s \in Statuses : validate_state_transition(s, "confirmed")},
    [s \in Statuses |-> CannotTransition(s, "confirmed")],
    UpdatePurchaseRow(db, purchase_id,
                 [status |-> "confirmed",
                  confirmation_number |-> data.confirmation_number,
                  total_amount |-> 0,
                  confirmed_at |-> NOW]),
    Metadata(NULL), << >>, "none", fault)

\* faulty variant: a confirmation that puts the order into preparation
ConfirmPrepares(db, tenant_id, purchase_id, data, fault) ==
  TransitionTx(db, tenant_id, purchase_id, "preparing",
    {s \in Statuses : validate_state_transition(s, "confirmed")},
    [s \in Statuses |-> CannotTransition(s, "confirmed")],
    UpdatePurchaseRow(db, purchase_id,
                 [status |-> "preparing",
                  confirmation_number |-> data.confirmation_number,
                  confirmed_at |-> NOW]),
    Metadata(NULL), << >>, "none", fault)

transition_to_confirmed(db, tenant_id, purchase_id, data, fault) ==
  TransitionTx(db, tenant_id, purchase_id, "confirmed",
    {s \in Statuses : validate_state_transition(s, "confirmed")},
    [s \in Statuses |-> CannotTransition(s, "confirmed")],
    UpdatePurchaseRow(db, purchase_id,
                 [status |-> "confirmed",
                  confirmation_number |-> data.confirmation_number,
                  confirmed_at |-> NOW]),
    Metadata(NULL), << >>, "none", fault)

transition_to_shipped(db, tenant_id, purchase_id, data, fault) ==
  TransitionTx(db, tenant_id, purchase_id, "shipped",
    {s \in Statuses : validate_state_transition(s, "shipped")},
    [s \in Statuses |->
       Detail("invalid_transition", {"current", "target", "allowed"},
              s, "shipped", AllowedFrom(s))],
    UpdatePurchaseRow(db, purchase_id,
                 [status |-> "shipped",
                  tracking_number |-> data.tracking_number,
                  shipped_at |-> NOW]),
    Metadata(NULL), data.files, "shipping_label", fault)

\* for item in items: UPDATE tenant_purchase_items SET quantity_received ...
\* WHERE purchase_id = $3 AND ingredient_id = $4
RECURSIVE ReceiveItems(_, _, _)
ReceiveItems(db, purchase_id, item_list) ==
  IF item_list = << >> THEN db
  ELSE LET item == Head(item_list)
           next == IF item.quantity_received # NONE
                     THEN UpdateItemRows(db,
                            {i \in ItemIdsOf(db, purchase_id) :
                               db.items[i].ingredient_id = item.ingredient_id},
                            [quantity_received |-> item.quantity_received])
                     ELSE db
       IN ReceiveItems(next, purchase_id, Tail(item_list))

\* faulty variant: every reception is taken for a complete one
ReceivedAlways(partial) == "received"

TargetOfReceive(partial) == IF partial THEN "partially_received" ELSE "received"

transition_to_received(db, tenant_id, purchase_id, data, fault) ==
  TransitionTx(db, tenant_id, purchase_id, TargetOfReceive(data.partial),
    {s \in Statuses : validate_state_transition(s, TargetOfReceive(data.partial))},
    [s \in Statuses |-> CannotTransition(s, TargetOfReceive(data.partial))],
    ReceiveItems(
                 UpdatePurchaseRow(db, purchase_id,
                   [status |-> TargetOfReceive(data.partial),
                    package_condition |-> data.package_condition,
                    received_by |-> UserOf(tenant_id),
                    received_at |-> NOW]),
                 purchase_id, data.items),
    Metadata(NULL), data.files, "delivery_photo", fault)

\* for item in items: UPDATE tenant_purchase_items SET quality_status ...
RECURSIVE VerifyItems(_, _, _)
VerifyItems(db, purchase_id, item_list) ==
  IF item_list = << >> THEN db
  ELSE LET item == Head(item_list)
           next == IF item.quality_status # NULL
                     THEN UpdateItemRows(db,
                            {i \in ItemIdsOf(db, purchase_id) :
                               db.items[i].ingredient_id = item.ingredient_id},
                            [quality_status |-> item.quality_status])
                     ELSE db
       IN VerifyItems(next, purchase_id, Tail(item_list))

transition_to_verified(db, tenant_id, purchase_id, data, fault) ==
  TransitionTx(db, tenant_id, purchase_id, "verified",
    {s \in Statuses : validate_state_transition(s, "verified")},
    [s \in Statuses |-> CannotTransition(s, "verified")],
    VerifyItems(
                 UpdatePurchaseRow(db, purchase_id,
                   [status |-> "verified",
                    verified_by |-> UserOf(tenant_id),
                    verified_at |-> NOW]),
                 purchase_id, data.items),
    Metadata(NULL), data.files, "quality_photo", fault)

transition_to_invoiced(db, tenant_id, purchase_id, data, fault) ==
  TransitionTx(db, tenant_id, purchase_id, "invoiced",
    {s \in Statuses : validate_state_transition(s, "invoiced")},
    [s \in Statuses |-> CannotTransition(s, "invoiced")],
    UpdatePurchaseRow(db, purchase_id,
                 [status |-> "invoiced",
                  invoice_number |-> data.invoice_number,
                  invoice_amount |-> data.invoice_amount,
                  total_amount |-> data.invoice_amount,
                  tax_amount |-> data.tax_amount,
                  invoiced_at |-> NOW]),
    Metadata(NULL), data.files, "invoice", fault)

transition_to_paid(db, tenant_id, purchase_id, data, fault) ==
  TransitionTx(db, tenant_id, purchase_id, "paid",
    {s \in Statuses : validate_state_transition(s, "paid")},
    [s \in Statuses |-> CannotTransition(s, "paid")],
    UpdatePurchaseRow(db, purchase_id,
                 [status |-> "paid",
                  payment_reference |-> data.payment_reference,
                  paid_at |-> NOW]),
    Metadata(NULL), data.files, "payment_proof", fault)

\* faulty variant: a cancel that asks the transition table
CancelByTable(db, tenant_id, purchase_id, data, fault) ==
  TransitionTx(db, tenant_id, purchase_id, "cancelled",
    {s \in Statuses : validate_state_transition(s, "cancelled")},
    [s \in Statuses |-> Detail("invalid_transition", {"current"}, s, NULL, {})],
    UpdatePurchaseRow(db, purchase_id,
                 [status |-> "cancelled",
                  cancellation_reason |-> data.cancellation_reason,
                  cancelled_at |-> NOW]),
    Metadata(NULL), << >>, "none", fault)

\* cancel does not consult the table: "Check if already in final state"
cancel_purchase(db, tenant_id, purchase_id, data, fault) ==
  TransitionTx(db, tenant_id, purchase_id, "cancelled",
    Statuses \ {"paid", "cancelled"},
    [s \in Statuses |-> Detail("invalid_transition", {"current"}, s, NULL, {})],
    UpdatePurchaseRow(db, purchase_id,
                 [status |-> "cancelled",
                  cancellation_reason |-> data.cancellation_reason,
                  cancelled_at |-> NOW]),
    Metadata(NULL), << >>, "none", fault)

\* for item in data['items']: UPDATE tenant_purchase_items SET unit_cost,
\* total_cost ... WHERE id = $4 AND purchase_id = $5
RECURSIVE PriceItems(_, _, _)
PriceItems(db, purchase_id, item_list) ==
  IF item_list = << >> THEN db
  ELSE LET item == Head(item_list)
           next == UpdateItemRows(db,
                     ItemIdsOf(db, purchase_id) \cap {item.id},
                     [unit_cost |-> item.unit_cost, total_cost |-> item.total_cost])
       IN PriceItems(next, purchase_id, Tail(item_list))

complete_quotation(db, tenant_id, purchase_id, data, fault) ==
  TransitionTx(db, tenant_id, purchase_id, "pending",
    {s \in Statuses : validate_state_transition(s, "pending")},
    [s \in Statuses |-> Detail("invalid_transition", {"current"}, s, NULL, {})],
    UpdatePurchaseRow(
                 PriceItems(db, purchase_id, data.items), purchase_id,
                 [status |-> "pending",
                  tax_amount |-> data.tax_amount,
                  total_amount |-> data.total_amount]),
    Metadata(NULL), << >>, "none", fault)

(***************************************************************************)
(* Supplier portal (supplier_portal_service.py)                            *)
(***************************************************************************)
\* for item_price in items_prices: SELECT quantity ... WHERE id = $1; when the
\* row exists, UPDATE tenant_purchase_items SET unit_cost, total_cost WHERE id
RECURSIVE PortalPriceItems(_, _)
PortalPriceItems(acc, items_prices) ==
  IF items_prices = << >> THEN acc
  ELSE LET item_price == Head(items_prices)
           found == /\ item_price.id \in DOMAIN acc.db.items
                    /\ ~acc.db.items[item_price.id].deleted
           total_cost == acc.db.items[item_price.id].quantity * item_price.unit_cost
           item_notes == IF "notes" \in DOMAIN item_price
                           THEN item_price.notes ELSE NULL
           priced == [unit_cost |-> item_price.unit_cost,
                      total_cost |-> total_cost]
           next == IF ~found THEN acc
                   ELSE [db |-> UpdateItemRows(acc.db,
                                  {item_price.id},
                                  IF item_notes = NULL THEN priced
                                  ELSE [unit_cost |-> item_price.unit_cost,
                                        total_cost |-> total_cost,
                                        notes |-> item_notes]),
                         total_amount |-> acc.total_amount + total_cost]
       IN PortalPriceItems(next, Tail(items_prices))

update_purchase_prices(db, token, purchase_id, data, fault) ==
  IF SupplierOfToken(token) = {}
    THEN Reply(get_db_connection(db, db, TRUE), 404, NotFound, << >>)
  ELSE
    LET supplier == tenant_suppliers[CHOOSE s \in SupplierOfToken(token) : TRUE] IN
    IF ~PurchaseOfSupplier(db, purchase_id, supplier.id)
      THEN Reply(get_db_connection(db, db, TRUE), 404, NotFound, << >>)
    ELSE
      LET purchase == db.purchases[purchase_id]
          priced == PortalPriceItems([db |-> db, total_amount |-> 0], data.items)
          written == UpdatePurchaseRow(priced.db, purchase_id,
                       [total_amount |-> priced.total_amount,
                        tax_amount |-> data.tax_amount,
                        status |-> "pending"])
          logged == create_status_history_entry(
                      written, purchase_id, supplier.tenant_id, "quotation",
                      "pending", purchase.created_by, Metadata(NULL))
      IN IF purchase.status # "quotation"
           THEN Reply(get_db_connection(db, db, TRUE), 400,
                      Detail("invalid_transition", {}, NULL, NULL, {}), << >>)
         ELSE IF fault
           THEN Reply(get_db_connection(db, written, TRUE), 500, InternalError, << >>)
         ELSE Reply(get_db_connection(db, logged, FALSE), 200, NoDetail, << >>)

DocumentTypes == {"remision", "factura_contado", "factura_credito"}

invoice_purchase_from_portal(db, token, purchase_id, data, fault) ==
  IF SupplierOfToken(token) = {}
    THEN Reply(get_db_connection(db, db, TRUE), 404, NotFound, << >>)
  ELSE
    LET supplier == tenant_suppliers[CHOOSE s \in SupplierOfToken(token) : TRUE] IN
    IF ~PurchaseOfSupplier(db, purchase_id, supplier.id)
      THEN Reply(get_db_connection(db, db, TRUE), 404, NotFound, << >>)
    ELSE
      LET purchase == db.purchases[purchase_id]
          written == UpdatePurchaseRow(db, purchase_id,
                       [status |-> "invoiced",
                        invoice_number |-> data.invoice_number,
                        invoice_amount |-> data.invoice_amount,
                        tax_amount |-> IF data.tax_amount = NONE THEN 0
                                       ELSE data.tax_amount])
          logged == create_status_history_entry(
                      written, purchase_id, supplier.tenant_id, purchase.status,
                      "invoiced", purchase.created_by,
                      Metadata(data.document_type))
          stored == upload_purchase_attachments(
                      logged, supplier.tenant_id, purchase_id,
                      purchase.created_by, data.files, "invoice")
      IN IF purchase.status \notin {"confirmed", "preparing", "paid"}
           THEN Reply(get_db_connection(db, db, TRUE), 400,
                      Detail("invalid_transition", {"current"},
                             purchase.status, NULL, {}), << >>)
         ELSE IF data.document_type \notin DocumentTypes
           THEN Reply(get_db_connection(db, db, TRUE), 400,
                      Detail("validation", {}, NULL, NULL, {}), << >>)
         ELSE IF data.document_type # "remision" /\ data.invoice_amount = NONE
           THEN Reply(get_db_connection(db, db, TRUE), 400,
                      Detail("validation", {}, NULL, NULL, {}), << >>)
         ELSE IF fault
           THEN Reply(get_db_connection(db, written, TRUE), 500, InternalError, << >>)
         ELSE Reply(get_db_connection(db, stored, FALSE), 200, NoDetail, << >>)

ship_purchase_from_portal(db, token, purchase_id, data, fault) ==
  IF SupplierOfToken(token) = {}
    THEN Reply(get_db_connection(db, db, TRUE), 404, NotFound, << >>)
  ELSE
    LET supplier == tenant_suppliers[CHOOSE s \in SupplierOfToken(token) : TRUE] IN
    IF ~PurchaseOfSupplier(db, purchase_id, supplier.id)
      THEN Reply(get_db_connection(db, db, TRUE), 404, NotFound, << >>)
    ELSE
      LET purchase == db.purchases[purchase_id]
          written == UpdatePurchaseRow(db, purchase_id,
                       [status |-> "shipped",
                        tracking_number |-> data.tracking_number,
                        shipped_at |-> NOW])
          logged == create_status_history_entry(
                      written, purchase_id, supplier.tenant_id, purchase.status,
                      "shipped", purchase.created_by, Metadata(NULL))
          stored == upload_purchase_attachments(
                      logged, supplier.tenant_id, purchase_id,
                      purchase.created_by, data.files, "shipping_label")
      IN IF purchase.status # "invoiced"
           THEN Reply(get_db_connection(db, db, TRUE), 400,
                      Detail("invalid_transition", {"current"},
                             purchase.status, NULL, {}), << >>)
         ELSE IF fault
           THEN Reply(get_db_connection(db, written, TRUE), 500, InternalError, << >>)
         ELSE Reply(get_db_connection(db, stored, FALSE), 200, NoDetail, << >>)

\* the latest history row of the purchase with to_status = 'invoiced'
\* (ORDER BY changed_at DESC LIMIT 1), 0 when there is none
LatestInvoiced(db, purchase_id) ==
  LET rows == {i \in DOMAIN db.history[purchase_id] :
                 db.history[purchase_id][i].to_status = "invoiced"}
  IN IF rows = {} THEN 0 ELSE CHOOSE i \in rows : \A j \in rows : j <= i

\* psh.metadata->>'document_type' of that row, NULL without one
DocumentTypeOf(db, purchase_id) ==
  IF LatestInvoiced(db, purchase_id) = 0 THEN NULL
  ELSE db.history[purchase_id][LatestInvoiced(db, purchase_id)].metadata.document_type

\* faulty variant: the metadata is replaced instead of extended
ReplaceMetadata(metadata, legal_invoice_number) ==
  [document_type |-> "factura_legal", numero_factura_legal |-> legal_invoice_number]

\* jsonb_set(COALESCE(metadata, '{}'), '{numero_factura_legal}', ...)
SetLegalInvoice(metadata, legal_invoice_number) ==
  [metadata EXCEPT !.numero_factura_legal = legal_invoice_number]

\* UPDATE purchase_status_history SET metadata = ... WHERE id = <latest invoiced
\* row>, for each listed purchase that has one
MarkLegalInvoice(db, ids, legal_invoice_number) ==
  [db EXCEPT !.history =
     [p \in DOMAIN @ |->
        IF p \in ids /\ LatestInvoiced(db, p) # 0
          THEN [@[p] EXCEPT ![LatestInvoiced(db, p)].metadata =
                              SetLegalInvoice(@, legal_invoice_number)]
          ELSE @[p]]]

\* INSERT INTO purchase_attachments for each uploaded file and each listed
\* purchase, tagged with the supplier's tenant and the purchase's creator
AttachToAll(db, ids, tenant_id, files) ==
  [db EXCEPT !.attachments =
     [p \in DOMAIN @ |->
        IF p \in ids
          THEN @[p] \o UploadedRows(tenant_id, p, db.purchases[p].created_by,
                                    files, "invoice")
          ELSE @[p]]]

\* faulty variant: the purchases that pass the check are written even when
\* another listed purchase fails it
AttachWhereAllowed(db, token, data) ==
  IF SupplierOfToken(token) = {}
    THEN Reply(get_db_connection(db, db, TRUE), 404, NotFound, << >>)
  ELSE
    LET supplier == tenant_suppliers[CHOOSE s \in SupplierOfToken(token) : TRUE]
        ids == {data.purchase_ids[i] : i \in DOMAIN data.purchase_ids}
        allowed == {p \in ids : /\ PurchaseOfSupplier(db, p, supplier.id)
                                /\ DocumentTypeOf(db, p) = "remision"}
        marked == MarkLegalInvoice(db, allowed, data.legal_invoice_number)
        stored == AttachToAll(marked, allowed, supplier.tenant_id, data.files)
    IN IF allowed # ids \/ Cardinality(ids) # Len(data.purchase_ids)
         THEN Reply(get_db_connection(db, stored, FALSE), 400,
                    Detail("validation", {}, NULL, NULL, {}), << >>)
       ELSE Reply(get_db_connection(db, stored, FALSE), 200, NoDetail, << >>)

\* the files are uploaded before the transaction opens; the history rows are
\* rewritten and the attachment rows inserted inside it
attach_legal_invoice(db, token, data) ==
  IF SupplierOfToken(token) = {}
    THEN Reply(get_db_connection(db, db, TRUE), 404, NotFound, << >>)
  ELSE
    LET supplier == tenant_suppliers[CHOOSE s \in SupplierOfToken(token) : TRUE]
        ids == {data.purchase_ids[i] : i \in DOMAIN data.purchase_ids}
        purchases_check == {p \in ids : PurchaseOfSupplier(db, p, supplier.id)}
        marked == MarkLegalInvoice(db, purchases_check, data.legal_invoice_number)
        stored == AttachToAll(marked, purchases_check, supplier.tenant_id, data.files)
    IN IF Cardinality(purchases_check) # Len(data.purchase_ids)
         THEN Reply(get_db_connection(db, db, TRUE), 400,
                    Detail("validation", {}, NULL, NULL, {}), << >>)
       ELSE IF \E p \in purchases_check : DocumentTypeOf(db, p) # "remision"
         THEN Reply(get_db_connection(db, db, TRUE), 400,
                    Detail("validation", {}, NULL, NULL, {}), << >>)
       ELSE Reply(get_db_connection(db, stored, FALSE), 200, NoDetail, << >>)

(***************************************************************************)
(* Purchase aggregate (purchases_service.py)                               *)
(***************************************************************************)
\* SELECT purchase_number ... WHERE tenant_id = $1 ORDER BY created_at DESC LIMIT 1
LastPurchaseOf(db, tenant_id) ==
  {p \in DOMAIN db.purchases :
     /\ db.purchases[p].tenant_id = tenant_id
     /\ \A q \in DOMAIN db.purchases :
          db.purchases[q].tenant_id = tenant_id => q <= p}

NextPurchaseNumber(db, tenant_id) ==
  IF LastPurchaseOf(db, tenant_id) = {} THEN 1
  ELSE db.purchases[CHOOSE p \in LastPurchaseOf(db, tenant_id) : TRUE].purchase_number + 1

\* the unit check made for every line item of create and update
ItemValid(item_data) ==
  /\ item_data.ingredient_id \in DOMAIN ingredients
  /\ item_data.unit = ingredients[item_data.ingredient_id]

\* total_cost = item_data.total_cost or (quantity * unit_cost), only with a unit_cost
TotalCostOf(item_data) ==
  IF item_data.unit_cost = NONE THEN NONE
  ELSE IF item_data.total_cost # NONE /\ item_data.total_cost # 0
    THEN item_data.total_cost
  ELSE item_data.quantity * item_data.unit_cost

\* the item loop of create and update: INSERT rows until an item fails the check
RECURSIVE InsertItems(_, _, _)
InsertItems(acc, purchase_id, item_list) ==
  IF item_list = << >> \/ acc.raised THEN acc
  ELSE LET item_data == Head(item_list)
           next == IF ~ItemValid(item_data)
                     THEN [acc EXCEPT !.raised = TRUE]
                     ELSE [acc EXCEPT !.db.items =
                             Append(@, NewItem(purchase_id, item_data,
                                               TotalCostOf(item_data)))]
       IN InsertItems(next, purchase_id, Tail(item_list))

\* what a read of the purchase returns: the row, its items, its history
PurchaseView(db, purchase_id) ==
  << [purchase |-> db.purchases[purchase_id],
      items |-> {db.items[i] : i \in ItemIdsOf(db, purchase_id)},
      status_history |-> db.history[purchase_id]] >>

get_purchase_by_id(db, tenant_id, purchase_id) ==
  IF ~PurchaseOfTenant(db, purchase_id, tenant_id)
    THEN Reply(get_db_connection(db, db, TRUE), 404, NotFound, << >>)
    ELSE Reply(get_db_connection(db, db, FALSE), 200, NoDetail,
               PurchaseView(db, purchase_id))

\* every exception but AuthenticationError leaves create_purchase as a 500
create_purchase(db, tenant_id, data) ==
  LET purchase_id == Len(db.purchases) + 1
      inserted == [db EXCEPT !.purchases =
                     Append(@, NewPurchase(tenant_id, data.supplier_id,
                                           NextPurchaseNumber(db, tenant_id),
                                           data.status, data.total_amount,
                                           UserOf(tenant_id)))]
      filled == InsertItems([db |-> inserted, raised |-> FALSE],
                            purchase_id, data.items)
  IN IF filled.raised
       THEN Reply(get_db_connection(db, filled.db, TRUE), 500, InternalError, << >>)
       ELSE Reply(get_db_connection(db, filled.db, FALSE), 200, NoDetail,
                  PurchaseView(filled.db, purchase_id))

\* faulty variant: the old line items are kept
DeleteNoItems(db, purchase_id) == db

\* DELETE FROM tenant_purchase_items WHERE purchase_id = $1
DeleteItems(db, purchase_id) ==
  UpdateItemRows(db, ItemIdsOf(db, purchase_id),
                 [deleted |-> TRUE])

\* the answer is read by get_purchase_by_id on a connection of its own while
\* the updating transaction is still open, so it sees the committed rows
update_purchase(db, tenant_id, purchase_id, data) ==
  IF ~PurchaseOfTenant(db, purchase_id, tenant_id)
    THEN Reply(get_db_connection(db, db, TRUE), 404, NotFound, << >>)
  ELSE
    LET written == UpdatePurchaseRow(db, purchase_id, data.fields)
        replaced == IF data.has_items
                      THEN InsertItems([db |-> DeleteItems(written, purchase_id),
                                        raised |-> FALSE],
                                       purchase_id, data.items)
                      ELSE [db |-> written, raised |-> FALSE]
    IN IF replaced.raised
         THEN Reply(get_db_connection(db, replaced.db, TRUE), 400,
                    Detail("validation", {}, NULL, NULL, {}), << >>)
         ELSE Reply(get_db_connection(db, replaced.db, FALSE), 200, NoDetail,
                    get_purchase_by_id(db, tenant_id, purchase_id).body)

(***************************************************************************)
(* History and attachment reads                                            *)
(***************************************************************************)
get_purchase_status_history(db, tenant_id, purchase_id) ==
  IF ~PurchaseOfTenant(db, purchase_id, tenant_id)
    THEN Reply(get_db_connection(db, db, TRUE), 404, NotFound, << >>)
    ELSE Reply(get_db_connection(db, db, FALSE), 200, NoDetail,
               db.history[purchase_id])

\* purchase_tracking_service.get_purchase_attachments (GET /purchases/{id}/attachments)
get_purchase_attachments(db, tenant_id, purchase_id) ==
  IF ~PurchaseOfTenant(db, purchase_id, tenant_id)
    THEN Reply(get_db_connection(db, db, TRUE), 404, NotFound, << >>)
    ELSE Reply(get_db_connection(db, db, FALSE), 200, NoDetail,
               db.attachments[purchase_id])

\* attachments_service.get_purchase_attachments (GET /attachments/purchases/{id}):
\* SELECT * FROM purchase_attachments WHERE purchase_id = $1 AND tenant_id = $2
list_attachments(db, tenant_id, purchase_id) ==
  Reply(get_db_connection(db, db, FALSE), 200, NoDetail,
        SelectSeq(db.attachments[purchase_id],
                  LAMBDA a : a.tenant_id = tenant_id))

(***************************************************************************)
(* Request payloads explored                                               *)
(***************************************************************************)
File(name, stored) == [name |-> name, stored |-> stored]
FileLists == { << >>, << File("f1", TRUE), File("f2", FALSE) >> }

ItemData(ingredient_id, quantity, unit, unit_cost, total_cost) ==
  [ingredient_id |-> ingredient_id, quantity |-> quantity, unit |-> unit,
   unit_cost |-> unit_cost, total_cost |-> total_cost]

CreateItemLists ==
  { << ItemData("i1", 2, "kg", NONE, NONE) >>,
    << ItemData("i1", 2, "l", NONE, NONE) >> }

CreateStatuses == {"quotation", "pending"}

CreateData ==
  [supplier_id : Suppliers, status : CreateStatuses,
   total_amount : {NONE}, items : CreateItemLists]

UpdateStatuses == {"preparing", "overdue", "confirmed"}

UpdateData ==
  {[fields |-> [status |-> s], has_items |-> FALSE, items |-> << >>] :
     s \in UpdateStatuses}
  \cup {[fields |-> << >>, has_items |-> TRUE, items |-> il] : il \in CreateItemLists}

ConfirmData == {[confirmation_number |-> "CN1"]}
ShipData == {[tracking_number |-> "1Z999", files |-> f] : f \in FileLists}
ReceiveData ==
  {[partial |-> b, package_condition |-> "good",
    items |-> << [ingredient_id |-> "i1", quantity_received |-> 2] >>,
    files |-> << >>] : b \in BOOLEAN}
VerifyData ==
  {[items |-> << [ingredient_id |-> "i1", quality_status |-> "good"] >>,
    files |-> << >>]}
InvoiceData ==
  {[invoice_number |-> "INV1", invoice_amount |-> 6, tax_amount |-> 1,
    files |-> << >>]}
PayData == {[payment_reference |-> "TX123", files |-> << >>]}
CancelData == {[cancellation_reason |-> "no longer needed"]}
QuotationData ==
  {[items |-> << [id |-> 1, unit_cost |-> 3, total_cost |-> 6] >>,
    tax_amount |-> 1, total_amount |-> 6]}
PricesData ==
  {[items |-> << [id |-> 1, unit_cost |-> 3] >>, tax_amount |-> 1]}
PortalInvoiceData ==
  {[document_type |-> "remision", invoice_number |-> "REM1",
    invoice_amount |-> NONE, tax_amount |-> NONE, files |-> << >>]}
PortalShipData == {[tracking_number |-> "1Z999", files |-> << >>]}
AttachData ==
  {[purchase_ids |-> << p >>, legal_invoice_number |-> "FL1", files |-> f] :
     p \in PurchaseIds, f \in FileLists}

(***************************************************************************)
(* Actions: one request served from start to end                           *)
(***************************************************************************)
RECURSIVE SumLen(_, _)
SumLen(f, S) ==
  IF S = {} THEN 0
  ELSE LET x == CHOOSE x \in S : TRUE IN Len(f[x]) + SumLen(f, S \ {x})

TotalHistory == SumLen(history, PurchaseIds)
TotalAttachments == SumLen(attachments, PurchaseIds)

StoredCount(files) == Len(SelectSeq(files, LAMBDA f : f.stored))

\* room left under the caps for one more history row and the request's files
Room(files) ==
  /\ TotalHistory < limits.history
  /\ TotalAttachments + StoredCount(files) <= limits.attachments

Serve(op, req, r) ==
  /\ purchases' = r.db.purchases
  /\ items' = r.db.items
  /\ history' = r.db.history
  /\ attachments' = r.db.attachments
  /\ response' = [op |-> op, req |-> req, status_code |-> r.status_code,
                  detail |-> r.detail, body |-> r.body]
  /\ UNCHANGED <<limits, txs, rowlock, vin, vout, blobs, magic_tokens,
               sessions>>

Create ==
  \E tenant_id \in Tenants, data \in CreateData :
    /\ Len(purchases) < Cardinality(PurchaseIds)
    /\ Serve("create_purchase",
             Request(tenant_id, Len(purchases) + 1, data.status),
             create_purchase(DB, tenant_id, data))
    /\ UNCHANGED updates

Update ==
  \E tenant_id \in Tenants, purchase_id \in PurchaseIds, data \in UpdateData :
    /\ updates < limits.updates
    /\ updates' = updates + 1
    /\ Serve("update_purchase",
             Request(tenant_id, purchase_id, data.fields),
             update_purchase(DB, tenant_id, purchase_id, data))

Read ==
  \E tenant_id \in Tenants, purchase_id \in PurchaseIds :
    /\ Serve("get_purchase_by_id", Request(tenant_id, purchase_id, NULL),
             get_purchase_by_id(DB, tenant_id, purchase_id))
    /\ UNCHANGED updates

ReadHistory ==
  \E tenant_id \in Tenants, purchase_id \in PurchaseIds :
    /\ Serve("get_purchase_status_history",
             Request(tenant_id, purchase_id, NULL),
             get_purchase_status_history(DB, tenant_id, purchase_id))
    /\ UNCHANGED updates

ReadAttachments ==
  \E tenant_id \in Tenants, purchase_id \in PurchaseIds :
    /\ Serve("get_purchase_attachments",
             Request(tenant_id, purchase_id, NULL),
             get_purchase_attachments(DB, tenant_id, purchase_id))
    /\ UNCHANGED updates

ListAttachments ==
  \E tenant_id \in Tenants, purchase_id \in PurchaseIds :
    /\ Serve("list_attachments", Request(tenant_id, purchase_id, NULL),
             list_attachments(DB, tenant_id, purchase_id))
    /\ UNCHANGED updates

Confirm ==
  \E tenant_id \in Tenants, purchase_id \in PurchaseIds,
     data \in ConfirmData, fault \in BOOLEAN :
    /\ Room(<< >>)
    /\ Serve("confirm", Request(tenant_id, purchase_id, "confirmed"),
             transition_to_confirmed(DB, tenant_id, purchase_id, data, fault))
    /\ UNCHANGED updates

Ship ==
  \E tenant_id \in Tenants, purchase_id \in PurchaseIds,
     data \in ShipData, fault \in BOOLEAN :
    /\ Room(data.files)
    /\ Serve("ship", Request(tenant_id, purchase_id, "shipped"),
             transition_to_shipped(DB, tenant_id, purchase_id, data, fault))
    /\ UNCHANGED updates

Receive ==
  \E tenant_id \in Tenants, purchase_id \in PurchaseIds,
     data \in ReceiveData, fault \in BOOLEAN :
    /\ Room(data.files)
    /\ Serve("receive",
             Request(tenant_id, purchase_id, TargetOfReceive(data.partial)),
             transition_to_received(DB, tenant_id, purchase_id, data, fault))
    /\ UNCHANGED updates

Verify ==
  \E tenant_id \in Tenants, purchase_id \in PurchaseIds,
     data \in VerifyData, fault \in BOOLEAN :
    /\ Room(data.files)
    /\ Serve("verify", Request(tenant_id, purchase_id, "verified"),
             transition_to_verified(DB, tenant_id, purchase_id, data, fault))
    /\ UNCHANGED updates

Invoice ==
  \E tenant_id \in Tenants, purchase_id \in PurchaseIds,
     data \in InvoiceData, fault \in BOOLEAN :
    /\ Room(data.files)
    /\ Serve("invoice", Request(tenant_id, purchase_id, "invoiced"),
             transition_to_invoiced(DB, tenant_id, purchase_id, data, fault))
    /\ UNCHANGED updates

Pay ==
  \E tenant_id \in Tenants, purchase_id \in PurchaseIds,
     data \in PayData, fault \in BOOLEAN :
    /\ Room(data.files)
    /\ Serve("pay", Request(tenant_id, purchase_id, "paid"),
             transition_to_paid(DB, tenant_id, purchase_id, data, fault))
    /\ UNCHANGED updates

Cancel ==
  \E tenant_id \in Tenants, purchase_id \in PurchaseIds,
     data \in CancelData, fault \in BOOLEAN :
    /\ Room(<< >>)
    /\ Serve("cancel", Request(tenant_id, purchase_id, "cancelled"),
             cancel_purchase(DB, tenant_id, purchase_id, data, fault))
    /\ UNCHANGED updates

CompleteQuotation ==
  \E tenant_id \in Tenants, purchase_id \in PurchaseIds,
     data \in QuotationData, fault \in BOOLEAN :
    /\ Room(<< >>)
    /\ Serve("complete_quotation",
             Request(tenant_id, purchase_id, "pending"),
             complete_quotation(DB, tenant_id, purchase_id, data, fault))
    /\ UNCHANGED updates

PortalPrices ==
  \E token \in Tokens, purchase_id \in PurchaseIds,
     data \in PricesData, fault \in BOOLEAN :
    /\ Room(<< >>)
    /\ Serve("update_purchase_prices",
             Request(token, purchase_id, "pending"),
             update_purchase_prices(DB, token, purchase_id, data, fault))
    /\ UNCHANGED updates

PortalInvoice ==
  \E token \in Tokens, purchase_id \in PurchaseIds,
     data \in PortalInvoiceData, fault \in BOOLEAN :
    /\ Room(data.files)
    /\ Serve("invoice_purchase_from_portal",
             Request(token, purchase_id, "invoiced"),
             invoice_purchase_from_portal(DB, token, purchase_id, data, fault))
    /\ UNCHANGED updates

PortalShip ==
  \E token \in Tokens, purchase_id \in PurchaseIds,
     data \in PortalShipData, fault \in BOOLEAN :
    /\ Room(data.files)
    /\ Serve("ship_purchase_from_portal",
             Request(token, purchase_id, "shipped"),
             ship_purchase_from_portal(DB, token, purchase_id, data, fault))
    /\ UNCHANGED updates

AttachLegalInvoice ==
  \E token \in Tokens, data \in AttachData :
    /\ TotalAttachments + StoredCount(data.files) * Len(data.purchase_ids)
         <= limits.attachments
    /\ Serve("attach_legal_invoice",
             Request(token, Head(data.purchase_ids), NULL),
             attach_legal_invoice(DB, token, data))
    /\ UNCHANGED updates

\* ValidateSpec: the function has not been called yet
NotCalled == [done |-> FALSE, result |-> FALSE]

NoResponse ==
  [op |-> "none", req |-> Request(NULL, 0, NULL), status_code |-> 0,
   detail |-> NoDetail, body |-> << >>]

Limits(max_history, max_updates) ==
  [history |-> max_history, attachments |-> MaxAttachments,
   updates |-> max_updates]

\* the tables hold `db`, no request has been served
Start(db, l) ==
  /\ purchases = db.purchases
  /\ items = db.items
  /\ history = db.history
  /\ attachments = db.attachments
  /\ updates = 0
  /\ limits = l
  /\ response = NoResponse
  /\ blobs = {}
  /\ magic_tokens = << >>
  /\ sessions = << >>

\* the variables of the other specifications, at rest
NoTransactions == /\ txs = << >>
                  /\ rowlock = << >>

NoCall == /\ vin = << >>
          /\ vout = NotCalled

Init == Start(EmptyDB, Limits(MaxHistory, 0)) /\ NoTransactions /\ NoCall

Next ==
  \/ Create
  \/ Read
  \/ ReadHistory
  \/ ReadAttachments
  \/ ListAttachments
  \/ Confirm
  \/ Ship
  \/ Receive
  \/ Verify
  \/ Invoice
  \/ Pay
  \/ Cancel
  \/ CompleteQuotation
  \/ PortalPrices
  \/ PortalInvoice
  \/ PortalShip

Spec == Init /\ [][Next]_vars

\* the same requests plus update_purchase and attach_legal_invoice, which
\* rewrite what the transitions wrote, on shorter histories
InitEdit ==
  Start(EmptyDB, Limits(MaxEditHistory, MaxUpdates)) /\ NoTransactions /\ NoCall

NextEdit ==
  \/ Next
  \/ Update
  \/ AttachLegalInvoice

EditSpec == InitEdit /\ [][NextEdit]_vars

(***************************************************************************)
(* ValidateSpec: validate_state_transition as a pure function, called on   *)
(* every pair of statuses and on values that are no status at all          *)
(***************************************************************************)
StatusArgs == Statuses \cup {"unknown"}

InitValidate ==
  /\ Start(EmptyDB, Limits(0, 0))
  /\ NoTransactions
  /\ vin \in [from_status : StatusArgs, to_status : StatusArgs]
  /\ vout = NotCalled

Validate ==
  /\ ~vout.done
  /\ vout' = [done |-> TRUE,
              result |-> validate_state_transition(vin.from_status, vin.to_status)]
  /\ UNCHANGED <<purchases, items, history, attachments, updates, limits,
                 response, txs, rowlock, vin, blobs, magic_tokens,
                 sessions>>

NextValidate == Validate

ValidateSpec == InitValidate /\ [][NextValidate]_vars

(***************************************************************************)
(* ConcSpec: two requests on one purchase, each a transaction of its own   *)
(* on a pooled connection (PostgreSQL default isolation, READ COMMITTED).  *)
(* A transition is the statement sequence of its handler:                  *)
(*   SELECT status ... WHERE id AND tenant_id     (no FOR UPDATE)          *)
(*   validate against the status just read                                 *)
(*   UPDATE tenant_purchases SET status ... WHERE id   (takes the row lock)*)
(*   INSERT INTO purchase_status_history (from = the status read)          *)
(*   commit                                        (releases the row lock) *)
(***************************************************************************)
Requests == {"r1", "r2"}
ConcOps == {"invoice", "pay", "invoice_purchase_from_portal", "cancel"}
ConcStatuses == {"pending", "confirmed", "verified", "paid"}
ConcPurchase == CHOOSE p \in PurchaseIds : TRUE

\* the status each handler writes
TxTarget(op) ==
  CASE op = "invoice" -> "invoiced"
    [] op = "pay" -> "paid"
    [] op = "invoice_purchase_from_portal" -> "invoiced"
    [] op = "cancel" -> "cancelled"

\* the check each handler makes on the status it read
TxAccepts(op, current_status) ==
  CASE op = "invoice" -> validate_state_transition(current_status, "invoiced")
    [] op = "pay" -> validate_state_transition(current_status, "paid")
    [] op = "invoice_purchase_from_portal" ->
         current_status \in {"confirmed", "preparing", "paid"}
    [] op = "cancel" -> current_status \notin {"paid", "cancelled"}

IdleTx == [pc |-> "idle", op |-> NULL, seen |-> NULL]

\* one purchase of tenant tA, created with a caller-supplied status
InitConc ==
  /\ \E s \in ConcStatuses :
       Start(create_purchase(EmptyDB, "tA",
               [supplier_id |-> "S1", status |-> s, total_amount |-> NONE,
                items |-> << ItemData("i1", 2, "kg", NONE, NONE) >>]).db,
             Limits(0, 0))
  /\ txs = [r \in Requests |-> IdleTx]
  /\ rowlock = [p \in PurchaseIds |-> NULL]
  /\ NoCall

ConcFrame ==
  UNCHANGED <<items, attachments, updates, limits, response, vin, vout, blobs,
              magic_tokens, sessions>>

\* the request arrives; its SELECT sees the committed row and the handler
\* validates the transition against it
TxSelect(r) ==
  \E op \in ConcOps :
    /\ txs[r].pc = "idle"
    /\ LET current_status == purchases[ConcPurchase].status
       IN txs' = [txs EXCEPT ![r] =
                    [pc |-> IF TxAccepts(op, current_status)
                              THEN "update" ELSE "rejected",
                     op |-> op, seen |-> current_status]]
    /\ UNCHANGED <<purchases, history, rowlock>>
    /\ ConcFrame

\* UPDATE ... WHERE id = $n: waits for the row lock, then writes the row
\* whatever status it holds by now; the write stays private until commit
TxUpdate(r) ==
  /\ txs[r].pc = "update"
  /\ rowlock[ConcPurchase] = NULL
  /\ rowlock' = [rowlock EXCEPT ![ConcPurchase] = r]
  /\ txs' = [txs EXCEPT ![r].pc = "history"]
  /\ UNCHANGED <<purchases, history>>
  /\ ConcFrame

\* INSERT INTO purchase_status_history with the status read by the SELECT
TxHistory(r) ==
  /\ txs[r].pc = "history"
  /\ txs' = [txs EXCEPT ![r].pc = "commit"]
  /\ UNCHANGED <<purchases, history, rowlock>>
  /\ ConcFrame

\* leaving get_db_connection(): the row and the history entry become visible
TxCommit(r) ==
  /\ txs[r].pc = "commit"
  /\ LET tx == txs[r]
         written == UpdatePurchaseRow(DB, ConcPurchase,
                                      [status |-> TxTarget(tx.op)])
         logged == create_status_history_entry(
                     written, ConcPurchase, "tA", tx.seen, TxTarget(tx.op),
                     UserOf("tA"), Metadata(NULL))
     IN /\ purchases' = logged.purchases
        /\ history' = logged.history
  /\ rowlock' = [rowlock EXCEPT ![ConcPurchase] = NULL]
  /\ txs' = [txs EXCEPT ![r].pc = "done"]
  /\ ConcFrame

NextConc ==
  \/ \E r \in Requests : TxSelect(r)
  \/ \E r \in Requests : TxUpdate(r)
  \/ \E r \in Requests : TxHistory(r)
  \/ \E r \in Requests : TxCommit(r)

ConcSpec == InitConc /\ [][NextConc]_vars

(***************************************************************************)
(* NumberSpec: create_purchase requests that overlap.  Each runs in a      *)
(* transaction of its own (READ COMMITTED):                                *)
(*   SELECT purchase_number ... WHERE tenant_id ORDER BY created_at DESC   *)
(*          LIMIT 1                   (sees committed rows only, no lock)  *)
(*   next_number = last_number + 1, or 1                                   *)
(*   INSERT INTO tenant_purchases (... purchase_number ...)                *)
(*   commit                                                                *)
(* No statement of the handler locks the tenant's rows, and the source     *)
(* holds no uniqueness rule on purchase_number.                            *)
(***************************************************************************)
Creators == 1..MaxCreators

IdleCreate == [pc |-> "idle", tenant_id |-> NULL, next_number |-> 0]

CreateOfNumberSpec ==
  [supplier_id |-> "S1", status |-> "quotation", total_amount |-> NONE,
   items |-> << ItemData("i1", 2, "kg", NONE, NONE) >>]

InitNumber ==
  /\ Start(EmptyDB, Limits(0, 0))
  /\ txs = [c \in Creators |-> IdleCreate]
  /\ rowlock = << >>
  /\ NoCall

NumberFrame ==
  UNCHANGED <<history, attachments, updates, limits, response, rowlock, vin, vout,
              blobs, magic_tokens, sessions>>

\* the request arrives: the SELECT reads the last committed number of the tenant
CreateSelect(c) ==
  \E tenant_id \in Tenants :
    /\ txs[c].pc = "idle"
    /\ txs' = [txs EXCEPT ![c] =
                 [pc |-> "insert", tenant_id |-> tenant_id,
                  next_number |-> NextPurchaseNumber(DB, tenant_id)]]
    /\ UNCHANGED <<purchases, items>>
    /\ NumberFrame

\* INSERT INTO tenant_purchases with the number computed from the SELECT; the
\* row stays private to the transaction
CreateInsert(c) ==
  /\ txs[c].pc = "insert"
  /\ txs' = [txs EXCEPT ![c].pc = "commit"]
  /\ UNCHANGED <<purchases, items>>
  /\ NumberFrame

\* leaving get_db_connection(): the purchase row and its item rows become visible
CreateCommit(c) ==
  /\ txs[c].pc = "commit"
  /\ LET tx == txs[c]
         data == CreateOfNumberSpec
         inserted == [DB EXCEPT !.purchases =
                        Append(@, NewPurchase(tx.tenant_id, data.supplier_id,
                                              tx.next_number, data.status,
                                              data.total_amount,
                                              UserOf(tx.tenant_id)))]
         filled == InsertItems([db |-> inserted, raised |-> FALSE],
                               Len(purchases) + 1, data.items)
     IN /\ purchases' = filled.db.purchases
        /\ items' = filled.db.items
  /\ txs' = [txs EXCEPT ![c].pc = "done"]
  /\ NumberFrame

NextNumber ==
  \/ \E c \in Creators : CreateSelect(c)
  \/ \E c \in Creators : CreateInsert(c)
  \/ \E c \in Creators : CreateCommit(c)

NumberSpec == InitNumber /\ [][NextNumber]_vars

(***************************************************************************)
(* The routes as data: operation name -> handler, payloads, target status  *)
(***************************************************************************)
TransitionOps ==
  {"confirm", "ship", "receive", "verify", "invoice", "pay", "cancel",
   "complete_quotation"}

PortalOps ==
  {"update_purchase_prices", "invoice_purchase_from_portal",
   "ship_purchase_from_portal"}

\* POST /purchases/{purchase_id}/<op>
Handle(op, db, tenant_id, purchase_id, data, fault) ==
  CASE op = "confirm" -> transition_to_confirmed(db, tenant_id, purchase_id, data, fault)
    [] op = "ship" -> transition_to_shipped(db, tenant_id, purchase_id, data, fault)
    [] op = "receive" -> transition_to_received(db, tenant_id, purchase_id, data, fault)
    [] op = "verify" -> transition_to_verified(db, tenant_id, purchase_id, data, fault)
    [] op = "invoice" -> transition_to_invoiced(db, tenant_id, purchase_id, data, fault)
    [] op = "pay" -> transition_to_paid(db, tenant_id, purchase_id, data, fault)
    [] op = "cancel" -> cancel_purchase(db, tenant_id, purchase_id, data, fault)
    [] op = "complete_quotation" ->
         complete_quotation(db, tenant_id, purchase_id, data, fault)

\* POST /supplier-portal/{token}/purchases/{purchase_id}/<op>
PortalHandle(op, db, token, purchase_id, data, fault) ==
  CASE op = "update_purchase_prices" ->
         update_purchase_prices(db, token, purchase_id, data, fault)
    [] op = "invoice_purchase_from_portal" ->
         invoice_purchase_from_portal(db, token, purchase_id, data, fault)
    [] op = "ship_purchase_from_portal" ->
         ship_purchase_from_portal(db, token, purchase_id, data, fault)

DataOf(op) ==
  CASE op = "confirm" -> ConfirmData
    [] op = "ship" -> ShipData
    [] op = "receive" -> ReceiveData
    [] op = "verify" -> VerifyData
    [] op = "invoice" -> InvoiceData
    [] op = "pay" -> PayData
    [] op = "cancel" -> CancelData
    [] op = "complete_quotation" -> QuotationData
    [] op = "update_purchase_prices" -> PricesData
    [] op = "invoice_purchase_from_portal" -> PortalInvoiceData
    [] op = "ship_purchase_from_portal" -> PortalShipData

\* the status the operation asks for
TargetOf(op, data) ==
  CASE op = "confirm" -> "confirmed"
    [] op = "ship" -> "shipped"
    [] op = "receive" -> TargetOfReceive(data.partial)
    [] op = "verify" -> "verified"
    [] op = "invoice" -> "invoiced"
    [] op = "pay" -> "paid"
    [] op = "cancel" -> "cancelled"
    [] op = "complete_quotation" -> "pending"

(***************************************************************************)
(* NotifySpec: one request at a time, split where the supplier email sits. *)
(* A handler runs, inside get_db_connection() and conn.transaction():      *)
(*   SELECT, validate, UPDATE, INSERT history, ingest files                *)
(*   try: send the supplier email   except Exception: pass                 *)
(*   return {"success": True}                                              *)
(* and only then does get_db_connection() leave its transaction, which     *)
(* commits; a commit that fails raises out of the handler's `async with`   *)
(* and becomes HTTP 500.  confirm, ship, receive, verify, invoice and pay  *)
(* send send_purchase_status_notification, create_purchase sends           *)
(* send_quotation_email for a quotation; cancel and complete_quotation     *)
(* send nothing.                                                           *)
(***************************************************************************)
EmailOps == {"confirm", "ship", "receive", "verify", "invoice", "pay"}
NotifyOps == TransitionOps \cup {"create_purchase"}

\* send_email: delivered / returned False / raised / no supplier address
EmailOutcomes == {"sent", "failed", "raised", "skipped"}

NotifyDataOf(op) ==
  IF op = "create_purchase" THEN {d \in CreateData : d.supplier_id = "S1"}
  ELSE DataOf(op)

FilesOf(data) == IF "files" \in DOMAIN data THEN data.files ELSE << >>

\* the status the request asks for
NotifyTargetOf(op, data) ==
  IF op = "create_purchase" THEN data.status ELSE TargetOf(op, data)

\* does the handler reach its email block
AttemptsEmail(op, data) ==
  \/ op \in EmailOps
  \/ op = "create_purchase" /\ data.status = "quotation"

\* faulty variant: a failed email leaves the handler as an exception
EmailFailureRaises(outcome) ==
  IF outcome \in {"failed", "raised"} THEN "raise" ELSE "commit"

\* except Exception as email_error: pass
PcAfterEmail(outcome) == "commit"

IdleNotify ==
  [pc |-> "idle", op |-> "none", req |-> Request(NULL, 0, NULL),
   attempts |-> FALSE, after |-> EmptyDB, email |-> "none", lost |-> FALSE,
   status_code |-> 0, detail |-> NoDetail, outbox |-> {}]

InitNotify ==
  /\ Start(EmptyDB, Limits(MaxNotifyHistory, 0))
  /\ txs = IdleNotify
  /\ rowlock = << >>
  /\ NoCall

NotifyTables == UNCHANGED <<purchases, items, history, attachments>>
NotifyFrame ==
  UNCHANGED <<updates, limits, rowlock, vin, vout, blobs, magic_tokens, sessions>>

\* the handler body up to its email block; its writes stay in the transaction
NotifyRun(op, tenant_id, purchase_id, data, r) ==
  /\ txs' = [pc |-> IF r.status_code # 200 THEN "raise"
                    ELSE IF AttemptsEmail(op, data) THEN "notify"
                    ELSE "commit",
             op |-> op,
             req |-> Request(tenant_id, purchase_id, NotifyTargetOf(op, data)),
             attempts |-> r.status_code = 200 /\ AttemptsEmail(op, data),
             after |-> r.db, email |-> "none", lost |-> FALSE,
             status_code |-> r.status_code, detail |-> r.detail,
             outbox |-> txs.outbox]
  /\ NotifyTables
  /\ UNCHANGED response
  /\ NotifyFrame

NotifyBegin ==
  /\ txs.pc \in {"idle", "done"}
  /\ \E op \in NotifyOps, tenant_id \in Tenants, fault \in BOOLEAN :
       \E data \in NotifyDataOf(op) :
         IF op = "create_purchase"
           THEN /\ ~fault
                /\ Len(purchases) < Cardinality(PurchaseIds)
                /\ NotifyRun(op, tenant_id, Len(purchases) + 1, data,
                             create_purchase(DB, tenant_id, data))
           ELSE \E purchase_id \in PurchaseIds :
                  /\ Room(FilesOf(data))
                  /\ NotifyRun(op, tenant_id, purchase_id, data,
                               Handle(op, DB, tenant_id, purchase_id, data, fault))

\* the email block: whatever happens in it is swallowed.  create_purchase
\* looks the supplier up by (id, tenant_id) and skips the email when it finds
\* none.
NotifySend ==
  /\ txs.pc = "notify"
  /\ \E outcome \in EmailOutcomes :
       /\ (/\ txs.op = "create_purchase"
           /\ tenant_suppliers["S1"].tenant_id # txs.req.caller)
            => outcome = "skipped"
       /\ txs' = [txs EXCEPT
                    !.email = outcome,
                    !.pc = PcAfterEmail(outcome),
                    !.status_code = IF PcAfterEmail(outcome) = "raise"
                                      THEN 500 ELSE @,
                    !.detail = IF PcAfterEmail(outcome) = "raise"
                                 THEN InternalError ELSE @,
                    !.outbox = IF outcome = "sent"
                                 THEN @ \cup {[purchase_id |-> txs.req.purchase_id,
                                               status |-> txs.req.arg]}
                                 ELSE @]
  /\ NotifyTables
  /\ UNCHANGED response
  /\ NotifyFrame

\* leaving get_db_connection(): COMMIT, or the connection is gone and the
\* transaction is lost
NotifyCommit ==
  /\ txs.pc = "commit"
  /\ \E lost \in BOOLEAN :
       IF lost
         THEN /\ txs' = [txs EXCEPT !.pc = "raise", !.lost = TRUE,
                                    !.status_code = 500,
                                    !.detail = InternalError]
              /\ NotifyTables
         ELSE /\ txs' = [txs EXCEPT !.pc = "return"]
              /\ purchases' = txs.after.purchases
              /\ items' = txs.after.items
              /\ history' = txs.after.history
              /\ attachments' = txs.after.attachments
  /\ UNCHANGED response
  /\ NotifyFrame

NotifyAnswer(status_code, detail) ==
  /\ response' = [op |-> txs.op, req |-> txs.req, status_code |-> status_code,
                  detail |-> detail, body |-> << >>]
  /\ txs' = [txs EXCEPT !.pc = "done"]
  /\ NotifyTables
  /\ NotifyFrame

\* return {"success": True, ...}
NotifyReturn ==
  /\ txs.pc = "return"
  /\ NotifyAnswer(200, NoDetail)

\* raise HTTPException(...): the handler's own 4xx, or 500 for anything else
NotifyRaise ==
  /\ txs.pc = "raise"
  /\ NotifyAnswer(txs.status_code, txs.detail)

NextNotify ==
  \/ NotifyBegin
  \/ NotifySend
  \/ NotifyCommit
  \/ NotifyReturn
  \/ NotifyRaise

NotifySpec == InitNotify /\ [][NextNotify]_vars

(***************************************************************************)
(* PriceSpec: the writers of total_amount, unit_cost and total_cost.  Up   *)
(* to MaxPricePurchases purchases of tenant tA are created with priced and *)
(* unpriced line items, priced by complete_quotation or by the supplier    *)
(* through the portal, and edited by update_purchase.                      *)
(* PriceFrameSpec: one such purchase, moved on by every other transition   *)
(* as well (requests without files).                                       *)
(***************************************************************************)
PricePurchaseIds == 1 .. MaxPricePurchases

\* item ids a price list may name: the rows of the first purchase and one more
PriceItemIds == 1 .. 3

PriceEmptyDB ==
  [purchases   |-> << >>,
   items       |-> << >>,
   history     |-> [p \in PricePurchaseIds |-> << >>],
   attachments |-> [p \in PricePurchaseIds |-> << >>]]

\* PurchaseCreate bodies: a quotation request without prices, an order with a
\* unit_cost only, and an order whose caller also sends a total_cost
PriceCreateData ==
  {[supplier_id |-> s, status |-> "quotation", total_amount |-> NONE,
    items |-> << ItemData("i1", 2, "kg", NONE, NONE),
                 ItemData("i2", 3, "l", NONE, NONE) >>] : s \in Suppliers}
  \cup {[supplier_id |-> s, status |-> "pending", total_amount |-> 6,
         items |-> << ItemData("i1", 2, "kg", 3, NONE) >>] : s \in Suppliers}
  \cup {[supplier_id |-> s, status |-> "pending", total_amount |-> 6,
         items |-> << ItemData("i1", 2, "kg", 3, 7) >>] : s \in Suppliers}

\* PurchaseUpdate bodies: a new total_amount, or a new set of line items
PriceUpdateData ==
  {[fields |-> [total_amount |-> 9], has_items |-> FALSE, items |-> << >>],
   [fields |-> << >>, has_items |-> TRUE,
    items |-> << ItemData("i1", 2, "kg", 3, NONE) >>]}

\* bodies of complete_quotation: the caller sends unit_cost, total_cost and
\* total_amount
PriceQuotationData ==
  {[items |-> << [id |-> i, unit_cost |-> 3, total_cost |-> c] >>,
    tax_amount |-> 1, total_amount |-> 6] : i \in PriceItemIds, c \in {6, 7}}
  \cup {[items |-> << [id |-> 1, unit_cost |-> 3, total_cost |-> 6],
                      [id |-> 2, unit_cost |-> 2, total_cost |-> 6] >>,
         tax_amount |-> 1, total_amount |-> 12]}

\* the price lists a supplier may post: none, one or two items at 3 each,
\* and one item named twice
PriceEntry(id, unit_cost) == [id |-> id, unit_cost |-> unit_cost]

PriceLists ==
  {<< >>} \cup {<< PriceEntry(i, 3) >> : i \in PriceItemIds}
          \cup {<< PriceEntry(1, 3), PriceEntry(i, 3) >> : i \in PriceItemIds \ {1}}
          \cup {<< PriceEntry(1, 2), PriceEntry(1, 3) >>}
          \cup {<< [id |-> i, unit_cost |-> 3, notes |-> "n1"] >> : i \in PriceItemIds}

PortalPriceData == {[items |-> l, tax_amount |-> 1] : l \in PriceLists}

PriceHistory == SumLen(history, PricePurchaseIds)

PriceLimits(max_purchases, max_history) ==
  [history |-> max_history, attachments |-> 0, updates |-> MaxUpdates,
   purchases |-> max_purchases]

InitPrice ==
  Start(PriceEmptyDB, PriceLimits(MaxPricePurchases, MaxPriceHistory))
    /\ NoTransactions /\ NoCall

PriceCreate ==
  \E data \in PriceCreateData :
    /\ Len(purchases) < limits.purchases
    /\ Serve("create_purchase", Request("tA", Len(purchases) + 1, data.status),
             create_purchase(DB, "tA", data))
    /\ UNCHANGED updates

PriceUpdate ==
  \E purchase_id \in PricePurchaseIds, data \in PriceUpdateData :
    /\ updates < limits.updates
    /\ updates' = updates + 1
    /\ Serve("update_purchase", Request("tA", purchase_id, data.fields),
             update_purchase(DB, "tA", purchase_id, data))

PriceComplete ==
  \E purchase_id \in PricePurchaseIds, data \in PriceQuotationData :
    /\ PriceHistory < limits.history
    /\ Serve("complete_quotation", Request("tA", purchase_id, "pending"),
             complete_quotation(DB, "tA", purchase_id, data, FALSE))
    /\ UNCHANGED updates

PricePortal ==
  \E token \in Tokens, purchase_id \in PricePurchaseIds, data \in PortalPriceData :
    /\ PriceHistory < limits.history
    /\ Serve("update_purchase_prices", Request(token, purchase_id, "pending"),
             update_purchase_prices(DB, token, purchase_id, data, FALSE))
    /\ UNCHANGED updates

\* the session transitions other than complete_quotation, on a stored purchase
PriceTransition ==
  \E op \in TransitionOps \ {"complete_quotation"}, purchase_id \in DOMAIN purchases :
    \E data \in DataOf(op) :
      /\ PriceHistory < limits.history
      /\ StoredCount(FilesOf(data)) = 0
      /\ Serve(op, Request("tA", purchase_id, TargetOf(op, data)),
               Handle(op, DB, "tA", purchase_id, data, FALSE))
      /\ UNCHANGED updates

\* the portal transitions other than the price submission
PricePortalTransition ==
  \E op \in PortalOps \ {"update_purchase_prices"}, token \in Tokens :
    \E purchase_id \in DOMAIN purchases, data \in DataOf(op) :
      /\ PriceHistory < limits.history
      /\ StoredCount(FilesOf(data)) = 0
      /\ Serve(op, Request(token, purchase_id, NULL),
               PortalHandle(op, DB, token, purchase_id, data, FALSE))
      /\ UNCHANGED updates

NextPrice ==
  \/ PriceCreate
  \/ PriceUpdate
  \/ PriceComplete
  \/ PricePortal

PriceSpec == InitPrice /\ [][NextPrice]_vars

InitPriceFrame ==
  Start(PriceEmptyDB, PriceLimits(1, MaxFrameHistory))
    /\ NoTransactions /\ NoCall

NextPriceFrame ==
  \/ NextPrice
  \/ PriceTransition
  \/ PricePortalTransition

PriceFrameSpec == InitPriceFrame /\ [][NextPriceFrame]_vars

(***************************************************************************)
(* LegalSpec: two purchases of tenant tA are confirmed, invoiced by their  *)
(* supplier with a delivery note or an invoice, and a legal invoice is     *)
(* attached to one of them, to both, or to one of them named twice.        *)
(***************************************************************************)
LegalCreateData ==
  {[supplier_id |-> s, status |-> "pending", total_amount |-> NONE,
    items |-> << ItemData("i1", 2, "kg", NONE, NONE) >>] : s \in Suppliers}

LegalInvoiceData ==
  {[document_type |-> "remision", invoice_number |-> "REM1",
    invoice_amount |-> NONE, tax_amount |-> NONE, files |-> << >>],
   [document_type |-> "factura_contado", invoice_number |-> "FC1",
    invoice_amount |-> 6, tax_amount |-> 1, files |-> << >>]}

\* purchase_ids of the form: comma-separated ids, as the supplier typed them
LegalIdLists == {<< 1 >>, << 2 >>, << 1, 2 >>, << 1, 1 >>}

LegalAttachData ==
  {[purchase_ids |-> l, legal_invoice_number |-> "FL1", files |-> f] :
     l \in LegalIdLists, f \in FileLists}

LegalLimits ==
  [history |-> MaxLegalHistory, attachments |-> MaxLegalAttachments,
   updates |-> 0, purchases |-> MaxPricePurchases]

InitLegal == Start(PriceEmptyDB, LegalLimits) /\ NoTransactions /\ NoCall

LegalCreate ==
  \E data \in LegalCreateData :
    /\ Len(purchases) < limits.purchases
    /\ Serve("create_purchase", Request("tA", Len(purchases) + 1, data.status),
             create_purchase(DB, "tA", data))
    /\ UNCHANGED updates

LegalConfirm ==
  \E purchase_id \in DOMAIN purchases, data \in ConfirmData :
    /\ PriceHistory < limits.history
    /\ Serve("confirm", Request("tA", purchase_id, "confirmed"),
             transition_to_confirmed(DB, "tA", purchase_id, data, FALSE))
    /\ UNCHANGED updates

LegalInvoice ==
  \E token \in Tokens, purchase_id \in DOMAIN purchases, data \in LegalInvoiceData :
    /\ PriceHistory < limits.history
    /\ Serve("invoice_purchase_from_portal",
             Request(token, purchase_id, "invoiced"),
             invoice_purchase_from_portal(DB, token, purchase_id, data, FALSE))
    /\ UNCHANGED updates

LegalAttach ==
  \E token \in Tokens, data \in LegalAttachData :
    /\ SumLen(attachments, PricePurchaseIds)
         + StoredCount(data.files) * Len(data.purchase_ids) <= limits.attachments
    /\ Serve("attach_legal_invoice",
             Request(token, Head(data.purchase_ids), data.purchase_ids),
             attach_legal_invoice(DB, token, data))
    /\ UNCHANGED updates

NextLegal ==
  \/ LegalCreate
  \/ LegalConfirm
  \/ LegalInvoice
  \/ LegalAttach

LegalSpec == InitLegal /\ [][NextLegal]_vars

(***************************************************************************)
(* DetailSpec: the attachments get_transition_detail relates to a history  *)
(* entry, as a function of the entry's changed_at and the attachment rows, *)
(* with timestamps in seconds around the edges of the window.              *)
(***************************************************************************)
\* if time_diff < 300:  # 5 minutes = 300 seconds
WindowSeconds == 300

DetailTimes == {0, 1, 299, 300, 301, 599, 600, 601, 900}

ChangedAtTimes == {300, 301}

DetailRow == [purchase_id : PricePurchaseIds, created_at : DetailTimes]

DetailTables ==
  UNION {[1 .. n -> DetailRow] : n \in 0 .. MaxDetailRows}

\* abs((upload_time - transition_time).total_seconds())
TimeDiff(upload_time, transition_time) ==
  IF upload_time >= transition_time THEN upload_time - transition_time
  ELSE transition_time - upload_time

\* ORDER BY uploaded_at DESC
RECURSIVE NewestFirst(_)
NewestFirst(rows) ==
  IF rows = << >> THEN << >>
  ELSE LET k == CHOOSE i \in DOMAIN rows :
                  \A j \in DOMAIN rows :
                    \/ rows[j].created_at < rows[i].created_at
                    \/ rows[j].created_at = rows[i].created_at /\ i <= j
           rest == [i \in 1 .. Len(rows) - 1 |->
                      IF i < k THEN rows[i] ELSE rows[i + 1]]
       IN << rows[k] >> \o NewestFirst(rest)

\* faulty variant: the rows of every purchase are looked at
RelatedOfAnyPurchase(rows, purchase_id, changed_at) ==
  SelectSeq(NewestFirst(rows),
            LAMBDA a : TimeDiff(a.created_at, changed_at) < WindowSeconds)

\* SELECT ... FROM purchase_attachments WHERE purchase_id = $1, then the rows
\* with time_diff < 300
RelatedAttachments(rows, purchase_id, changed_at) ==
  SelectSeq(NewestFirst(SelectSeq(rows, LAMBDA a : a.purchase_id = purchase_id)),
            LAMBDA a : TimeDiff(a.created_at, changed_at) < WindowSeconds)

InitDetail ==
  /\ Start(EmptyDB, Limits(0, 0))
  /\ NoTransactions
  /\ vin \in [purchase_id : PricePurchaseIds, changed_at : ChangedAtTimes,
              rows : DetailTables]
  /\ vout = NotCalled

ReadDetail ==
  /\ ~vout.done
  /\ vout' = [done |-> TRUE,
              result |-> RelatedAttachments(vin.rows, vin.purchase_id,
                                            vin.changed_at)]
  /\ UNCHANGED <<purchases, items, history, attachments, updates, limits,
                 response, txs, rowlock, vin, blobs, magic_tokens,
                 sessions>>

NextDetail == ReadDetail

DetailSpec == InitDetail /\ [][NextDetail]_vars

(***************************************************************************)
(* AuthSpec: the session operations called with a session of tenant tA,    *)
(* with a session that carries no tenant, and with no valid session.       *)
(***************************************************************************)
AuthCallers == {"tA", "no_tenant", "no_session"}

\* request.state.session_context as the middleware leaves it
SessionContextOf(caller) ==
  [is_valid |-> caller # "no_session",
   tenant_id |-> IF caller \in Tenants THEN caller ELSE NULL]

AuthenticationFailed == Detail("authentication", {}, NULL, NULL, {})

\* session_context = require_valid_session(request)
\* if not tenant_id: raise AuthenticationError("Tenant ID is required")
\* ...
\* except AuthenticationError: raise
RequireSession(db, session, r) ==
  IF ~session.is_valid \/ session.tenant_id = NULL
    THEN Reply(db, 401, AuthenticationFailed, << >>)
    ELSE r

\* attachments_service.get_purchase_attachments: `if not session: raise
\* HTTPException(status_code=401)` inside a try whose only clause is
\* `except Exception: raise HTTPException(status_code=500)`; a session
\* without a tenant goes on to the SELECT with tenant_id NULL
ListAttachmentsOf(db, session, purchase_id) ==
  IF ~session.is_valid
    THEN Reply(get_db_connection(db, db, TRUE), 500, InternalError, << >>)
    ELSE list_attachments(db, session.tenant_id, purchase_id)

SessionReadOps ==
  {"get_purchase_by_id", "get_purchase_status_history",
   "get_purchase_attachments"}

ReadHandle(op, db, tenant_id, purchase_id) ==
  CASE op = "get_purchase_by_id" -> get_purchase_by_id(db, tenant_id, purchase_id)
    [] op = "get_purchase_status_history" ->
         get_purchase_status_history(db, tenant_id, purchase_id)
    [] op = "get_purchase_attachments" ->
         get_purchase_attachments(db, tenant_id, purchase_id)

InitAuth ==
  Start(EmptyDB, Limits(MaxAuthHistory, MaxUpdates)) /\ NoTransactions /\ NoCall

AuthCreate ==
  \E caller \in AuthCallers, data \in LegalCreateData :
    /\ Len(purchases) < Cardinality(PurchaseIds)
    /\ Serve("create_purchase", Request(caller, Len(purchases) + 1, data.status),
             RequireSession(DB, SessionContextOf(caller),
               create_purchase(DB, SessionContextOf(caller).tenant_id, data)))
    /\ UNCHANGED updates

AuthUpdate ==
  \E caller \in AuthCallers, purchase_id \in PurchaseIds, data \in UpdateData :
    /\ updates < limits.updates
    /\ updates' = updates + 1
    /\ Serve("update_purchase", Request(caller, purchase_id, data.fields),
             RequireSession(DB, SessionContextOf(caller),
               update_purchase(DB, SessionContextOf(caller).tenant_id,
                               purchase_id, data)))

AuthTransition ==
  \E caller \in AuthCallers, op \in TransitionOps, purchase_id \in PurchaseIds :
    \E data \in DataOf(op) :
      /\ Room(FilesOf(data))
      /\ Serve(op, Request(caller, purchase_id, TargetOf(op, data)),
               RequireSession(DB, SessionContextOf(caller),
                 Handle(op, DB, SessionContextOf(caller).tenant_id,
                        purchase_id, data, FALSE)))
      /\ UNCHANGED updates

AuthRead ==
  \E caller \in AuthCallers, op \in SessionReadOps, purchase_id \in PurchaseIds :
    /\ Serve(op, Request(caller, purchase_id, NULL),
             RequireSession(DB, SessionContextOf(caller),
               ReadHandle(op, DB, SessionContextOf(caller).tenant_id, purchase_id)))
    /\ UNCHANGED updates

AuthListAttachments ==
  \E caller \in AuthCallers, purchase_id \in PurchaseIds :
    /\ Serve("list_attachments", Request(caller, purchase_id, NULL),
             ListAttachmentsOf(DB, SessionContextOf(caller), purchase_id))
    /\ UNCHANGED updates

NextAuth ==
  \/ AuthCreate
  \/ AuthUpdate
  \/ AuthTransition
  \/ AuthRead
  \/ AuthListAttachments

AuthSpec == InitAuth /\ [][NextAuth]_vars

(***************************************************************************)
(* RenumberSpec: create_purchase and update_purchase one after the other.  *)
(* PurchaseUpdate carries purchase_number, so a tenant may rewrite the     *)
(* number of a stored purchase; create_purchase then reads the number of   *)
(* the tenant's row created last.  Numbers are the NNNN of WR-YYYY-NNNN,   *)
(* all of the current year.                                                *)
(***************************************************************************)
RenumberPurchaseIds == 1 .. MaxRenumberPurchases
RenumberNumbers == 1 .. MaxRenumberNumber

RenumberEmptyDB ==
  [purchases   |-> << >>,
   items       |-> << >>,
   history     |-> [p \in RenumberPurchaseIds |-> << >>],
   attachments |-> [p \in RenumberPurchaseIds |-> << >>]]

\* PurchaseUpdate bodies that set purchase_number only
RenumberData ==
  {[fields |-> [purchase_number |-> n], has_items |-> FALSE, items |-> << >>] :
     n \in RenumberNumbers}

InitRenumber ==
  Start(RenumberEmptyDB,
        [history |-> 0, attachments |-> 0, updates |-> MaxRenumberUpdates,
         purchases |-> MaxRenumberPurchases])
    /\ NoTransactions /\ NoCall

RenumberCreate ==
  \E tenant_id \in Tenants :
    /\ Len(purchases) < limits.purchases
    /\ Serve("create_purchase", Request(tenant_id, Len(purchases) + 1, "quotation"),
             create_purchase(DB, tenant_id, CreateOfNumberSpec))
    /\ UNCHANGED updates

RenumberUpdate ==
  \E tenant_id \in Tenants, purchase_id \in RenumberPurchaseIds :
    \E data \in RenumberData :
      /\ updates < limits.updates
      /\ updates' = updates + 1
      /\ Serve("update_purchase", Request(tenant_id, purchase_id, data.fields),
               update_purchase(DB, tenant_id, purchase_id, data))

NextRenumber == RenumberCreate \/ RenumberUpdate

RenumberSpec == InitRenumber /\ [][NextRenumber]_vars

(***************************************************************************)
(* BlobSpec: the bucket next to the purchase_attachments table.  Objects   *)
(* are written and removed by calls to the storage service, which no       *)
(* database transaction covers:                                            *)
(*   - a transition uploads each file (upload_file, a key of its own from  *)
(*     uuid4) and inserts its row inside the handler's transaction;        *)
(*   - attach_legal_invoice uploads the files before its transaction, each *)
(*     under a key derived from the file name, and inserts one row per     *)
(*     file and listed purchase;                                           *)
(*   - delete_purchase_attachment calls delete_file, ignores its result,   *)
(*     and deletes the row.                                                *)
(* A file's name stands for the key its object is stored under.            *)
(***************************************************************************)
\* purchase_attachments.s3_key of a row
S3KeyOf(row) == row.file_name

\* the keys upload_file hands out
BlobKeys == {"k1", "k2"}

\* the keys of the files whose upload returned a key
StoredKeys(files) ==
  {files[i].name : i \in {j \in DOMAIN files : files[j].stored}}

\* the keys the attachment rows hold
RowKeys ==
  UNION {{S3KeyOf(attachments[p][i]) : i \in DOMAIN attachments[p]} :
           p \in DOMAIN attachments}

RemoveAt(rows, n) ==
  [i \in 1 .. (Len(rows) - 1) |-> IF i < n THEN rows[i] ELSE rows[i + 1]]

\* SELECT * FROM purchase_attachments WHERE id = $1 AND tenant_id = $2
AttachmentOfTenant(db, purchase_id, n, tenant_id) ==
  /\ purchase_id \in DOMAIN db.attachments
  /\ n \in DOMAIN db.attachments[purchase_id]
  /\ db.attachments[purchase_id][n].tenant_id = tenant_id

\* the rows delete_purchase_attachment leaves; the attachment id is the pair
\* of the purchase and the row's position
delete_purchase_attachment(db, tenant_id, purchase_id, n, fault) ==
  IF ~AttachmentOfTenant(db, purchase_id, n, tenant_id)
    THEN Reply(get_db_connection(db, db, TRUE), 404, NotFound, << >>)
  ELSE LET deleted == [db EXCEPT !.attachments[purchase_id] = RemoveAt(@, n)]
       IN IF fault
            THEN Reply(get_db_connection(db, deleted, TRUE), 500,
                       InternalError, << >>)
            ELSE Reply(get_db_connection(db, deleted, FALSE), 200, NoDetail,
                       << >>)

\* the handler's transaction does not commit: the connection is lost after the
\* last statement, and the exception leaves the handler as a 500
CommitLost(db, r, lost) ==
  IF r.status_code = 200 /\ lost
    THEN Reply(get_db_connection(db, r.db, TRUE), 500, InternalError, << >>)
    ELSE r

BlobLimits ==
  [history |-> MaxBlobHistory, attachments |-> MaxBlobAttachments,
   updates |-> 0, purchases |-> MaxPricePurchases]

InitBlob == Start(PriceEmptyDB, BlobLimits) /\ NoTransactions /\ NoCall

ServeBlob(op, req, r, bucket) ==
  /\ purchases' = r.db.purchases
  /\ items' = r.db.items
  /\ history' = r.db.history
  /\ attachments' = r.db.attachments
  /\ blobs' = bucket
  /\ response' = [op |-> op, req |-> req, status_code |-> r.status_code,
                  detail |-> r.detail, body |-> r.body]
  /\ UNCHANGED <<updates, limits, txs, rowlock, vin, vout, magic_tokens,
               sessions>>

\* POST /purchases: an order for supplier S1
BlobCreate ==
  \E data \in {d \in LegalCreateData : d.supplier_id = "S1"} :
    /\ Len(purchases) < limits.purchases
    /\ Serve("create_purchase", Request("tA", Len(purchases) + 1, data.status),
             create_purchase(DB, "tA", data))
    /\ UNCHANGED updates

\* the supplier registers a delivery note
BlobInvoice ==
  \E purchase_id \in DOMAIN purchases :
    \E data \in {d \in LegalInvoiceData : d.document_type = "remision"} :
      /\ PriceHistory < limits.history
      /\ Serve("invoice_purchase_from_portal",
               Request("tokS1", purchase_id, "invoiced"),
               invoice_purchase_from_portal(DB, "tokS1", purchase_id, data, FALSE))
      /\ UNCHANGED updates

\* POST /purchases/{id}/ship with one file
BlobShip ==
  \E purchase_id \in DOMAIN purchases, key \in BlobKeys \ (blobs \cup RowKeys) :
    \E stored \in BOOLEAN, lost \in BOOLEAN :
      LET data == [tracking_number |-> "1Z999",
                   files |-> << File(key, stored) >>]
          r == transition_to_shipped(DB, "tA", purchase_id, data, FALSE)
      IN /\ PriceHistory < limits.history
         /\ SumLen(attachments, PricePurchaseIds) < limits.attachments
         /\ ServeBlob("ship", Request("tA", purchase_id, "shipped"),
                      CommitLost(DB, r, lost),
                      IF r.status_code = 200
                        THEN blobs \cup StoredKeys(data.files) ELSE blobs)

\* POST /supplier-portal/{token}/invoices/attach-legal
BlobAttach ==
  \E token \in Tokens, data \in LegalAttachData, lost \in BOOLEAN :
    LET r == attach_legal_invoice(DB, token, data)
    IN /\ SumLen(attachments, PricePurchaseIds)
            + StoredCount(data.files) * Len(data.purchase_ids) <= limits.attachments
       /\ ServeBlob("attach_legal_invoice",
                    Request(token, Head(data.purchase_ids), data.purchase_ids),
                    CommitLost(DB, r, lost),
                    IF r.status_code = 200
                      THEN blobs \cup StoredKeys(data.files) ELSE blobs)

\* DELETE /attachments/{attachment_id}; `removed` is what delete_file returns
BlobDelete ==
  \E tenant_id \in Tenants, purchase_id \in PricePurchaseIds :
    \E n \in 1 .. MaxBlobAttachments, removed \in BOOLEAN, fault \in BOOLEAN :
      LET r == delete_purchase_attachment(DB, tenant_id, purchase_id, n, fault)
      IN /\ ServeBlob("delete_purchase_attachment",
                      Request(tenant_id, purchase_id, NULL), r,
                      IF r.status_code # 404 /\ removed
                        THEN blobs \ {S3KeyOf(attachments[purchase_id][n])}
                        ELSE blobs)
         /\ n <= MaxBlobAttachments

NextBlob ==
  \/ BlobCreate
  \/ LegalConfirm
  \/ BlobInvoice
  \/ BlobShip
  \/ BlobAttach
  \/ BlobDelete

BlobSpec == InitBlob /\ [][NextBlob]_vars

(***************************************************************************)
(* LoginSpec: magic links, sessions and tenant switches.  Every request     *)
(* runs in one READ COMMITTED transaction (get_db_connection): what it      *)
(* writes is private until its commit, and an UPDATE waits for the row      *)
(* lock of a row another open transaction has written, then looks at that   *)
(* row again but at no row committed after the statement began.             *)
(***************************************************************************)
Users == {"u1", "u2"}

\* table tenant_members: u2 belongs to tB only
tenant_members == {<<"u1", "tA">>, <<"u1", "tB">>, <<"u2", "tB">>}

VerifyOps == {"verify_code", "verify_token"}

IdleLogin == [op |-> "none", pc |-> "idle", user_id |-> NULL,
              tenant_id |-> NULL, token |-> 0, targets |-> {},
              status_code |-> 0]

\* a request that was answered
Answered(op, status_code) ==
  [IdleLogin EXCEPT !.op = op, !.pc = "done", !.status_code = status_code]

\* the WHERE clause of the SELECT of verify_code and verify_token
TokenAccepted(mt, user_id, token, tenant_id) ==
  /\ token \in DOMAIN mt
  /\ mt[token].user_id = user_id
  /\ mt[token].tenant_id = tenant_id
  /\ ~mt[token].expired
  /\ ~mt[token].used

\* the WHERE clause of the session lookup of the middleware
session_validation_middleware(ss, session_id) ==
  /\ session_id \in DOMAIN ss
  /\ ss[session_id].is_active

\* the rows "WHERE user_id = $1 AND is_active = true" selects
ActiveSessionsOf(ss, user_id) ==
  {s \in DOMAIN ss : ss[s].user_id = user_id /\ ss[s].is_active}

\* token rows an open transaction has written and keeps locked
TokenLockedByOther(r, token) ==
  \E o \in Requests \ {r} :
    /\ txs[o].pc = "marked"
    /\ txs[o].token = token

InitLogin ==
  /\ Start(EmptyDB, Limits(MaxHistory, 0))
  /\ txs = [r \in Requests |-> IdleLogin]
  /\ rowlock = << >>
  /\ NoCall

LoginFrame ==
  UNCHANGED <<purchases, items, history, attachments, updates, limits,
              response, rowlock, vin, vout, blobs>>

\* send_magic_link, one transaction: the user's unused tokens are marked
\* used and a new row is inserted for the tenant of the request
send_magic_link ==
  \E user_id \in Users, tenant_id \in Tenants :
    /\ Len(magic_tokens) < MaxTokens
    /\ \A r \in Requests :
         txs[r].pc = "marked" /\ txs[r].op \in VerifyOps =>
           magic_tokens[txs[r].token].user_id # user_id
    /\ magic_tokens' =
         Append([t \in DOMAIN magic_tokens |->
                   IF magic_tokens[t].user_id = user_id
                   THEN [magic_tokens[t] EXCEPT !.used = TRUE]
                   ELSE magic_tokens[t]],
                [user_id |-> user_id, tenant_id |-> tenant_id,
                 used |-> FALSE, expired |-> FALSE])
    /\ UNCHANGED <<sessions, txs>>
    /\ LoginFrame

\* fifteen minutes pass for a token
TokenExpires ==
  \E t \in DOMAIN magic_tokens :
    /\ ~magic_tokens[t].expired
    /\ magic_tokens' = [magic_tokens EXCEPT ![t].expired = TRUE]
    /\ UNCHANGED <<sessions, txs>>
    /\ LoginFrame

\* verify_code / verify_token, first statement: the SELECT of the token
VerifySelect ==
  \E r \in Requests, op \in VerifyOps, user_id \in Users,
     tenant_id \in Tenants, token \in 1..MaxTokens :
    /\ txs[r].pc \in {"idle", "done"}
    /\ txs' = [txs EXCEPT ![r] =
         IF TokenAccepted(magic_tokens, user_id, token, tenant_id)
         THEN [op |-> op, pc |-> "selected", user_id |-> user_id,
               tenant_id |-> tenant_id, token |-> token, targets |-> {},
               status_code |-> 0]
         ELSE Answered(op, 401)]
    /\ UNCHANGED <<magic_tokens, sessions>>
    /\ LoginFrame

\* second statement: UPDATE magic_tokens SET used = true WHERE code AND
\* user_id, which waits for the row lock; the UPDATE of sessions begins
VerifyMark ==
  \E r \in Requests :
    /\ txs[r].pc = "selected"
    /\ txs[r].op \in VerifyOps
    /\ ~TokenLockedByOther(r, txs[r].token)
    /\ txs' = [txs EXCEPT ![r].pc = "marked",
                          ![r].targets =
                             ActiveSessionsOf(sessions, txs[r].user_id)]
    /\ UNCHANGED <<magic_tokens, sessions>>
    /\ LoginFrame

\* switch_tenant up to the start of its UPDATE of sessions: the session of
\* the request is valid and the user is a member of the tenant asked for
SwitchSelect ==
  \E r \in Requests, session_id \in 1..MaxSessions, tenant_id \in Tenants :
    /\ txs[r].pc \in {"idle", "done"}
    /\ session_id \in DOMAIN sessions
    /\ txs' = [txs EXCEPT ![r] =
         IF /\ session_validation_middleware(sessions, session_id)
            /\ <<sessions[session_id].user_id, tenant_id>> \in tenant_members
         THEN [op |-> "switch_tenant", pc |-> "marked",
               user_id |-> sessions[session_id].user_id,
               tenant_id |-> tenant_id, token |-> 0,
               targets |->
                 ActiveSessionsOf(sessions, sessions[session_id].user_id),
               status_code |-> 0]
         ELSE Answered("switch_tenant", 401)]
    /\ UNCHANGED <<magic_tokens, sessions>>
    /\ LoginFrame

\* the rest of the transaction: the sessions the UPDATE selected and that
\* are still active are ended, the new session is inserted, and the commit
\* publishes the writes
EstablishSession ==
  \E r \in Requests :
    /\ txs[r].pc = "marked"
    /\ Len(sessions) < MaxSessions
    /\ sessions' =
         Append([s \in DOMAIN sessions |->
                   IF s \in txs[r].targets
                   THEN [sessions[s] EXCEPT !.is_active = FALSE]
                   ELSE sessions[s]],
                [user_id |-> txs[r].user_id, tenant_id |-> txs[r].tenant_id,
                 is_active |-> TRUE])
    /\ magic_tokens' =
         IF txs[r].op \in VerifyOps
         THEN [magic_tokens EXCEPT ![txs[r].token].used = TRUE]
         ELSE magic_tokens
    /\ txs' = [txs EXCEPT ![r] = Answered(txs[r].op, 200)]
    /\ LoginFrame

NextLogin ==
  \/ send_magic_link
  \/ TokenExpires
  \/ VerifySelect
  \/ VerifyMark
  \/ SwitchSelect
  \/ EstablishSession

LoginSpec == InitLogin /\ [][NextLogin]_vars

(***************************************************************************)
(* InvoiceSpec: the bookkeeping of transition_to_invoiced.  Dates are day   *)
(* numbers, a string that fromisoformat refuses is BadDate, an argument     *)
(* that was not sent is NONE.                                               *)
(***************************************************************************)
InvoiceDates == 0..MaxInvoiceDate

\* a date string that does not parse
BadDate == NONE - 1

\* datetime.now() of the request, a day after every date of the requests
InvoiceNow == MaxInvoiceDate + MaxCreditDays + 3

DateArgs == InvoiceDates \cup {BadDate}
CreditDayArgs == (0..MaxCreditDays) \cup {NONE}
AmountArgs == (0..MaxInvoiceAmount) \cup {NONE}

\* datetime.fromisoformat inside try/except: NONE when it raises
ParseDate(s) == IF s \in InvoiceDates THEN s ELSE NONE

\* Python truth of an Optional number
Truthy(n) == n # NONE /\ n # 0

\* "invoice_dt": the parsed invoice date, datetime.now() when it does not parse
InvoiceDt(invoice_date) ==
  IF ParseDate(invoice_date) = NONE THEN InvoiceNow ELSE ParseDate(invoice_date)

\* "payment_due_dt" before the transaction: the parsed due date of the request
SuppliedDue(payment_due_date) ==
  IF payment_due_date = NONE THEN NONE ELSE ParseDate(payment_due_date)

\* faulty variant: a due date sent with the request wins over the purchase
DueSuppliedFirst(purchase_credit_days, invoice_date, credit_days, payment_due_date) ==
  IF SuppliedDue(payment_due_date) # NONE
  THEN SuppliedDue(payment_due_date)
  ELSE IF Truthy(purchase_credit_days) /\ purchase_credit_days > 0
       THEN InvoiceDt(invoice_date) + purchase_credit_days
       ELSE IF Truthy(credit_days)
            THEN InvoiceDt(invoice_date) + credit_days
            ELSE NONE

\* "Calculate payment_due_date if credit_days is set"
PaymentDueDt(purchase_credit_days, invoice_date, credit_days, payment_due_date) ==
  IF Truthy(purchase_credit_days) /\ purchase_credit_days > 0
  THEN InvoiceDt(invoice_date) + purchase_credit_days
  ELSE IF SuppliedDue(payment_due_date) = NONE /\ Truthy(credit_days)
       THEN InvoiceDt(invoice_date) + credit_days
       ELSE SuppliedDue(payment_due_date)

\* "payment_balance = invoice_amount if invoice_amount else 0"
PaymentBalance(invoice_amount) ==
  IF Truthy(invoice_amount) THEN invoice_amount ELSE 0

InitInvoice ==
  /\ Start(EmptyDB, Limits(0, 0))
  /\ NoTransactions
  /\ vin \in [status : Statuses, purchase_credit_days : CreditDayArgs,
              invoice_date : DateArgs, invoice_amount : AmountArgs,
              credit_days : CreditDayArgs,
              payment_due_date : DateArgs \cup {NONE}]
  /\ vout = NotCalled

\* the handler on the purchase row of vin: the transition is validated,
\* then the UPDATE writes the invoice and payment columns
InvoiceCall ==
  /\ ~vout.done
  /\ vout' =
       IF validate_state_transition(vin.status, "invoiced")
       THEN [done |-> TRUE, status_code |-> 200,
             status |-> "invoiced",
             invoice_date |-> InvoiceDt(vin.invoice_date),
             invoice_amount |-> vin.invoice_amount,
             total_amount |-> vin.invoice_amount,
             payment_due_date |->
               PaymentDueDt(vin.purchase_credit_days, vin.invoice_date,
                            vin.credit_days, vin.payment_due_date),
             payment_balance |-> PaymentBalance(vin.invoice_amount)]
       ELSE [done |-> TRUE, status_code |-> 400, status |-> vin.status]
  /\ UNCHANGED <<purchases, items, history, attachments, updates, limits,
                 response, txs, rowlock, vin, blobs, magic_tokens,
                 sessions>>

NextInvoice == InvoiceCall

InvoiceSpec == InitInvoice /\ [][NextInvoice]_vars

(***************************************************************************)
(* Properties                                                              *)
(***************************************************************************)
\* the transition table as the specification document prints it (section 4.1)
SpecTable ==
  [s \in Statuses |->
     CASE s = "quotation"          -> {"pending", "cancelled"}
       [] s = "pending"            -> {"confirmed", "cancelled"}
       [] s = "confirmed"          -> {"preparing", "shipped", "paid", "invoiced", "cancelled"}
       [] s = "preparing"          -> {"shipped", "paid", "invoiced", "cancelled"}
       [] s = "paid"               -> {"invoiced"}
       [] s = "invoiced"           -> {"shipped"}
       [] s = "shipped"            -> {"received", "partially_received", "overdue"}
       [] s = "partially_received" -> {"received", "overdue"}
       [] s = "received"           -> {"verified"}
       [] s = "verified"           -> {"paid"}
       [] s = "cancelled"          -> {}
       [] s = "overdue"            -> {"shipped", "received", "cancelled"}]

\* that table without shipping straight from confirmed or preparing
TableWithoutDirectShipping ==
  [s \in Statuses |->
     IF s \in {"confirmed", "preparing"} THEN SpecTable[s] \ {"shipped"}
     ELSE SpecTable[s]]

OwnerOf(p) == purchases[p].tenant_id
StatusOf(p) == purchases[p].status
TokenOf(supplier_id) == tenant_suppliers[supplier_id].access_token

\* the request was refused as an invalid transition and nothing was written
RefusedUnchanged(r) ==
  /\ r.status_code = 400
  /\ r.detail.kind = "invalid_transition"
  /\ r.db = DB

\* what the operation does with a target the table of section 4.1 does not
\* list for the current status
RefusesOffTable(op) ==
  \A p \in DOMAIN purchases, data \in DataOf(op), fault \in BOOLEAN :
    TargetOf(op, data) \notin SpecTable[StatusOf(p)]
      => RefusedUnchanged(Handle(op, DB, OwnerOf(p), p, data, fault))

\* C1 (as amended): confirm, ship, receive, verify, invoice, pay and
\* complete-quotation fail with an invalid-transition error and write nothing
\* (status, history, attachments) whenever the target is not in the section 4.1
\* entry of the current status; cancel is refused that way exactly from paid
\* and cancelled.
TransitionLegality ==
  /\ \A op \in TransitionOps \ {"cancel"} : RefusesOffTable(op)
  /\ \A p \in DOMAIN purchases, data \in CancelData, fault \in BOOLEAN :
       LET r == cancel_purchase(DB, OwnerOf(p), p, data, fault)
       IN IF StatusOf(p) \in {"paid", "cancelled"}
            THEN RefusedUnchanged(r)
            ELSE r.status_code # 400

\* C1 witness: ship was just refused on a purchase still in quotation
ShipRefusedFromQuotation ==
  /\ response.op = "ship"
  /\ response.status_code = 400
  /\ response.detail.kind = "invalid_transition"
  /\ response.req.purchase_id \in DOMAIN purchases
  /\ StatusOf(response.req.purchase_id) = "quotation"
  /\ history[response.req.purchase_id] = << >>

\* C1 as stated: every transition operation, cancel included, is refused
\* when its target is not in the section 4.1 entry of the current status.
TransitionLegalityAllOps ==
  \A op \in TransitionOps : RefusesOffTable(op)

ConcurrentTransitionsSerialize ==
  /\ \A r1 \in Requests, r2 \in Requests :
       (r1 # r2 /\ txs[r1].pc = "done" /\ txs[r2].pc = "done")
         => txs[r1].seen # txs[r2].seen
  /\ \A p \in DOMAIN purchases :
       \A i \in 2..Len(history[p]) :
         history[p][i].from_status = history[p][i - 1].to_status

\* C4: for every session and portal transition that would have been accepted,
\* a failure of the history INSERT makes the request fail and leaves the
\* purchase row, its items, its history and its attachments as they were.
TransitionAtomicity ==
  /\ \A op \in TransitionOps :
       \A p \in PurchaseIds, tenant_id \in Tenants, data \in DataOf(op) :
       LET accepted == Handle(op, DB, tenant_id, p, data, FALSE)
           failed == Handle(op, DB, tenant_id, p, data, TRUE)
       IN /\ failed.db = DB
          /\ accepted.status_code = 200 => failed.status_code = 500
  /\ \A op \in PortalOps :
       \A p \in PurchaseIds, token \in Tokens, data \in DataOf(op) :
       LET accepted == PortalHandle(op, DB, token, p, data, FALSE)
           failed == PortalHandle(op, DB, token, p, data, TRUE)
       IN /\ failed.db = DB
          /\ accepted.status_code = 200 => failed.status_code = 500

\* C4 witness: a confirm whose history INSERT failed was just answered with
\* 500 on a pending purchase that shows no trace of it
ConfirmFailedAndRolledBack ==
  /\ response.op = "confirm"
  /\ response.status_code = 500
  /\ response.req.purchase_id \in DOMAIN purchases
  /\ StatusOf(response.req.purchase_id) = "pending"
  /\ purchases[response.req.purchase_id].confirmed_at = NULL

\* the statuses a walk along the section 4.1 table reaches from `seen`
RECURSIVE ReachableFrom(_)
ReachableFrom(seen) ==
  LET more == seen \cup UNION {SpecTable[s] : s \in seen}
  IN IF more = seen THEN seen ELSE ReachableFrom(more)

\* the status of purchase p after the request answered by r
StatusAfter(r, p) == r.db.purchases[p].status

HistoryChain ==
  \A p \in DOMAIN purchases :
    LET h == history[p]
    IN /\ h # << >> => /\ h[1].from_status = NULL
                       /\ h[Len(h)].to_status = StatusOf(p)
       /\ \A i \in 2..Len(h) : h[i].from_status = h[i - 1].to_status

\* a request of another tenant is answered not-found and writes nothing
NotFoundUnchanged(r) ==
  /\ r.status_code = 404
  /\ r.db = DB

\* C7 as stated: every read, update, history read, attachment read and
\* transition made by a tenant that does not own the purchase is answered
\* not-found and changes nothing.
TenantIsolation ==
  \A p \in DOMAIN purchases : \A tenant_id \in Tenants \ {OwnerOf(p)} :
    /\ NotFoundUnchanged(get_purchase_by_id(DB, tenant_id, p))
    /\ NotFoundUnchanged(get_purchase_status_history(DB, tenant_id, p))
    /\ NotFoundUnchanged(get_purchase_attachments(DB, tenant_id, p))
    /\ NotFoundUnchanged(list_attachments(DB, tenant_id, p))
    /\ \A data \in UpdateData :
         NotFoundUnchanged(update_purchase(DB, tenant_id, p, data))
    /\ \A op \in TransitionOps :
         \A data \in DataOf(op), fault \in BOOLEAN :
         NotFoundUnchanged(Handle(op, DB, tenant_id, p, data, fault))

\* C8: cancel by the owner succeeds from every status but paid and cancelled,
\* sets status cancelled, stores the reason and appends one history row from
\* the previous status to cancelled; from paid and cancelled it fails and
\* leaves the purchase and its history as they were.
CancellationBoundary ==
  \A p \in DOMAIN purchases, data \in CancelData :
    LET r == cancel_purchase(DB, OwnerOf(p), p, data, FALSE)
        h == r.db.history[p]
    IN IF StatusOf(p) \in {"paid", "cancelled"}
         THEN /\ r.status_code = 400
              /\ r.db = DB
         ELSE /\ r.status_code = 200
              /\ StatusAfter(r, p) = "cancelled"
              /\ r.db.purchases[p].cancellation_reason = data.cancellation_reason
              /\ Len(h) = Len(history[p]) + 1
              /\ SubSeq(h, 1, Len(history[p])) = history[p]
              /\ h[Len(h)].from_status = StatusOf(p)
              /\ h[Len(h)].to_status = "cancelled"

\* C8 witness: a shipped purchase was just cancelled
ShippedPurchaseCancelled ==
  /\ response.op = "cancel"
  /\ response.status_code = 200
  /\ response.req.purchase_id \in DOMAIN purchases
  /\ LET p == response.req.purchase_id
         h == history[p]
     IN /\ StatusOf(p) = "cancelled"
        /\ purchases[p].cancellation_reason # NULL
        /\ h # << >>
        /\ h[Len(h)].from_status = "shipped"
        /\ h[Len(h)].to_status = "cancelled"

\* the payloads of the happy-path scenario
PricesOfScenario == CHOOSE d \in PricesData : TRUE
ConfirmOfScenario == CHOOSE d \in ConfirmData : TRUE
InvoiceOfScenario == CHOOSE d \in InvoiceData : TRUE
ReceiveOfScenario == CHOOSE d \in ReceiveData : ~d.partial
VerifyOfScenario == CHOOSE d \in VerifyData : TRUE
PayOfScenario == CHOOSE d \in PayData : TRUE

\* the to_status column of a history, in row order
ToStatuses(h) == [i \in 1..Len(h) |-> h[i].to_status]

\* a purchase created in quotation on which nothing has happened yet
FreshQuotation(p) ==
  /\ StatusOf(p) = "quotation"
  /\ history[p] = << >>

Accepted(r, p, status) ==
  /\ r.status_code = 200
  /\ StatusAfter(r, p) = status

RejectionNamesLegalNextStates ==
  \A op \in TransitionOps :
    \A p \in DOMAIN purchases, data \in DataOf(op), fault \in BOOLEAN :
      LET r == Handle(op, DB, OwnerOf(p), p, data, fault)
      IN r.status_code = 400 =>
           /\ r.detail.reports = {"current", "target", "allowed"}
           /\ r.detail.current = StatusOf(p)
           /\ r.detail.target = TargetOf(op, data)
           /\ r.detail.allowed = AllowedFrom(StatusOf(p))
           /\ r.db = DB
(***************************************************************************)
(* C11  purchase numbers                                                   *)
(***************************************************************************)
\* C11: any two purchases of one tenant carry distinct purchase numbers, and
\* the purchase created later carries the strictly larger one, also when the
\* two create_purchase requests overlap.
PurchaseNumbersIncrease ==
  \A p \in DOMAIN purchases : \A q \in DOMAIN purchases :
    (p < q /\ purchases[p].tenant_id = purchases[q].tenant_id)
      => purchases[p].purchase_number < purchases[q].purchase_number

(***************************************************************************)
(* C12  attachment isolation                                               *)
(***************************************************************************)
\* every list of up to MaxFiles files, each uploaded or failed
FileListsUpToMax ==
  UNION {{[i \in 1..n |-> File("f" \o ToString(i), ok[i])] :
            ok \in [1..n -> BOOLEAN]} : n \in 0..MaxFiles}

FileOps == {"ship", "receive", "verify", "invoice", "pay"}
PortalFileOps == {"invoice_purchase_from_portal", "ship_purchase_from_portal"}

AttachmentTypeOf(op) ==
  CASE op \in {"ship", "ship_purchase_from_portal"} -> "shipping_label"
    [] op = "receive" -> "delivery_photo"
    [] op = "verify" -> "quality_photo"
    [] op \in {"invoice", "invoice_purchase_from_portal"} -> "invoice"
    [] op = "pay" -> "payment_proof"

TenantOfToken(token) ==
  tenant_suppliers[CHOOSE s \in SupplierOfToken(token) : TRUE].tenant_id

\* an accepted request moved purchase p to `target`, appended one history row
\* and one attachment row per uploaded file, in order, tagged with p, the
\* tenant the request acts for and `attachment_type`
StoredExactlyUploaded(r, p, tenant_id, target, attachment_type, files) ==
  LET ok == SelectSeq(files, LAMBDA f : f.stored)
      before == Len(attachments[p])
      after == r.db.attachments[p]
  IN r.status_code = 200 =>
       /\ r.db.purchases[p].status = target
       /\ Len(r.db.history[p]) = Len(history[p]) + 1
       /\ r.db.history[p][Len(history[p]) + 1].to_status = target
       /\ Len(after) = before + Len(ok)
       /\ SubSeq(after, 1, before) = attachments[p]
       /\ \A i \in 1..Len(ok) :
            /\ after[before + i].file_name = ok[i].name
            /\ after[before + i].purchase_id = p
            /\ after[before + i].tenant_id = tenant_id
            /\ after[before + i].attachment_type = attachment_type

EmailFailures == {"failed", "raised"}

\* the tables show the writes of the request in flight: the purchase exists in
\* the status asked for, and a transition has logged it as its last history row
WritesOfRequestPersist ==
  LET p == txs.req.purchase_id
  IN /\ DB = txs.after
     /\ p \in DOMAIN purchases
     /\ StatusOf(p) = txs.req.arg
     /\ txs.op # "create_purchase" =>
          /\ history[p] # << >>
          /\ history[p][Len(history[p])].to_status = txs.req.arg

\* C13: a supplier email that raises or reports failure never fails or rolls
\* back the operation that triggered it, for every transition and for create
\* in status quotation: the handler goes on to commit, and returns success with
\* its status change, history row and other writes in place.
EmailFailureIsHarmless ==
  (txs.attempts /\ txs.email \in EmailFailures) =>
    /\ txs.pc \in {"commit", "return", "raise", "done"}
    /\ txs.pc = "raise" => txs.lost
    /\ txs.pc = "return" => WritesOfRequestPersist
    /\ (txs.pc = "done" /\ ~txs.lost) =>
         /\ response.status_code = 200
         /\ response.op = txs.op
         /\ WritesOfRequestPersist

\* C13 witness: a pay whose supplier email raised was answered with success
\* and the purchase is paid
PaidThoughEmailRaised ==
  /\ txs.pc = "done"
  /\ txs.op = "pay"
  /\ txs.email = "raised"
  /\ response.op = "pay"
  /\ response.status_code = 200
  /\ StatusOf(txs.req.purchase_id) = "paid"
  /\ purchases[txs.req.purchase_id].paid_at = NOW

\* C14 as stated: the supplier email of a transition is sent only after the
\* transaction holding the status update, the history row and the attachment
\* rows has committed, so every notification sent is about a status change
\* that the committed history shows.
NotifiedOnlyAfterCommit ==
  \A m \in txs.outbox :
    m.status # "quotation" =>
      \E i \in DOMAIN history[m.purchase_id] :
        history[m.purchase_id][i].to_status = m.status

(***************************************************************************)
(* C15  supplier scoping in the portal                                     *)
(***************************************************************************)
\* the same answer, and nothing written
SameRefusal(r, m) ==
  /\ r.status_code = m.status_code
  /\ r.detail = m.detail
  /\ r.body = m.body
  /\ r.db = DB

\* C15 as stated: every portal operation (submit prices, invoice, ship,
\* attach legal invoice) called with a valid token on a purchase of another
\* supplier is rejected as not-found, exactly as for a purchase id that does
\* not exist, and changes no purchase, item, history or attachment row.
SupplierScoping ==
  \A p \in DOMAIN purchases : \A token \in Tokens :
    (SupplierOfToken(token) # {} /\ token # TokenOf(purchases[p].supplier_id))
      => LET missing == Len(purchases) + 1
         IN /\ \A op \in PortalOps : \A data \in DataOf(op), fault \in BOOLEAN :
                 LET r == PortalHandle(op, DB, token, p, data, fault)
                 IN /\ r.status_code = 404
                    /\ SameRefusal(r, PortalHandle(op, DB, token, missing,
                                                   data, fault))
            /\ \A data \in AttachData :
                 LET r == attach_legal_invoice(
                            DB, token, [data EXCEPT !.purchase_ids = << p >>])
                 IN /\ r.status_code = 404
                    /\ SameRefusal(r, attach_legal_invoice(
                                        DB, token,
                                        [data EXCEPT !.purchase_ids = << missing >>]))

(***************************************************************************)
(* C16  history rows                                                       *)
(***************************************************************************)
\* the row but for the legal invoice number in its metadata
WithoutLegalInvoice(row) ==
  [row EXCEPT !.metadata.numero_factura_legal = NULL]

\* C16 (as amended): no operation deletes or reorders a history row or changes
\* its from_status, to_status, changed_by or the rest of its metadata; the
\* history of a purchase only grows by appending.  The one rewrite is
\* attach_legal_invoice, which sets the legal invoice number in the metadata of
\* the purchase's latest row with to_status invoiced.
HistoryKeptButLegalInvoice ==
  [][\A p \in PurchaseIds :
       /\ Len(history'[p]) >= Len(history[p])
       /\ \A i \in DOMAIN history[p] :
            \/ history'[p][i] = history[p][i]
            \/ /\ response'.op = "attach_legal_invoice"
               /\ i = LatestInvoiced(DB, p)
               /\ WithoutLegalInvoice(history'[p][i])
                    = WithoutLegalInvoice(history[p][i])]_vars

\* C16 witness: attach_legal_invoice was accepted and the invoiced row of a
\* delivery note now carries the legal invoice number
LegalInvoiceWrittenIntoHistory ==
  /\ response.op = "attach_legal_invoice"
  /\ response.status_code = 200
  /\ \E p \in DOMAIN purchases :
       /\ LatestInvoiced(DB, p) # 0
       /\ LET row == history[p][LatestInvoiced(DB, p)]
          IN /\ row.to_status = "invoiced"
             /\ row.metadata.document_type = "remision"
             /\ row.metadata.numero_factura_legal = "FL1"

\* C16 as stated: once written, no operation changes any field of a history
\* row or deletes it.
HistoryRowsImmutable ==
  [][\A p \in PurchaseIds :
       /\ Len(history'[p]) >= Len(history[p])
       /\ \A i \in DOMAIN history[p] : history'[p][i] = history[p][i]]_vars

(***************************************************************************)
(* C17  transition timestamps                                              *)
(***************************************************************************)
TimestampedStatuses ==
  {"confirmed", "shipped", "received", "verified", "invoiced", "paid",
   "cancelled"}

\* the column that records the entry into the status
TimestampOf(status) ==
  CASE status = "confirmed" -> "confirmed_at"
    [] status = "shipped" -> "shipped_at"
    [] status = "received" -> "received_at"
    [] status = "verified" -> "verified_at"
    [] status = "invoiced" -> "invoiced_at"
    [] status = "paid" -> "paid_at"
    [] status = "cancelled" -> "cancelled_at"

\* C17 as stated: every operation, session or portal, that moves a purchase
\* into confirmed, shipped, received, verified, invoiced, paid or cancelled
\* sets the matching *_at timestamp in the same write; hence a purchase whose
\* history shows a transition into status X has X_at set.
TimestampSetOnEntry ==
  \A p \in DOMAIN purchases : \A i \in DOMAIN history[p] :
    history[p][i].to_status \in TimestampedStatuses
      => purchases[p][TimestampOf(history[p][i].to_status)] # NULL

(***************************************************************************)
(* C18  where prices enter the aggregate                                   *)
(***************************************************************************)
\* the priced rows of a purchase: id, unit_cost and total_cost of every live
\* line item that carries a price
PricedItems(I, p) ==
  {<< i, I[i].unit_cost, I[i].total_cost >> :
     i \in {j \in DOMAIN I : /\ ~I[j].deleted
                             /\ I[j].purchase_id = p
                             /\ (I[j].unit_cost # NONE \/ I[j].total_cost # NONE)}}

\* the price columns of the aggregate; a purchase not stored yet has none
PriceColumns(P, I) ==
  [p \in PricePurchaseIds |->
     [total_amount |-> IF p \in DOMAIN P THEN P[p].total_amount ELSE NONE,
      items |-> PricedItems(I, p)]]

ItemPrices(P, I) == [p \in PricePurchaseIds |-> PriceColumns(P, I)[p].items]

QuotationOps == {"complete_quotation", "update_purchase_prices"}

PriceWriters ==
  QuotationOps \cup {"create_purchase", "update_purchase", "invoice"}

\* C18 as stated: total_amount, unit_cost and total_cost are null until
\* complete_quotation or the portal price submission runs, and no other
\* operation (create, update, invoice, any other transition) sets or changes
\* them.
PricesOnlyThroughQuotation ==
  [][PriceColumns(purchases', items') # PriceColumns(purchases, items)
       => response'.op \in QuotationOps]_vars

\* C18 amended: the price columns are written by create_purchase (the caller's
\* total_amount, unit_cost and total_cost), update_purchase,
\* complete_quotation, the portal price submission and transition_to_invoiced
\* (total_amount only); every other operation leaves them as they are.
PricesOnlyThroughWriters ==
  [][/\ PriceColumns(purchases', items') # PriceColumns(purchases, items)
          => response'.op \in PriceWriters
     /\ ItemPrices(purchases', items') # ItemPrices(purchases, items)
          => response'.op \in PriceWriters \ {"invoice"}]_vars

\* a priced purchase has been verified: confirm, invoice, ship, receive and
\* verify have all acted on its prices
VerifiedPricedPurchase ==
  /\ response.op = "verify"
  /\ response.status_code = 200
  /\ purchases[response.req.purchase_id].total_amount # NONE
  /\ PricedItems(items, response.req.purchase_id) # {}

(***************************************************************************)
(* C19  total of a portal price submission                                 *)
(***************************************************************************)
\* the sum of quantity x unit_cost over the item rows `ids`
RECURSIVE SumOfCosts(_, _)
SumOfCosts(I, ids) ==
  IF ids = {} THEN 0
  ELSE LET i == CHOOSE j \in ids : TRUE
       IN I[i].quantity * I[i].unit_cost + SumOfCosts(I, ids \ {i})

\* C19 as stated: after a successful portal price submission the purchase is
\* pending, every line item of the purchase is priced, and total_amount is
\* the sum of quantity x unit_cost over all line items of that purchase and
\* of no other, whatever list of item prices was submitted.
PortalTotalIsItemSum ==
  (response.op = "update_purchase_prices" /\ response.status_code = 200)
    => LET p == response.req.purchase_id
           ids == ItemIdsOf(DB, p)
       IN /\ purchases[p].status = "pending"
          /\ \A i \in ids : items[i].unit_cost # NONE
          /\ purchases[p].total_amount = SumOfCosts(items, ids)

(***************************************************************************)
(* C20  total_cost of a line item                                          *)
(***************************************************************************)
\* C20 as stated: every line item with a total_cost has total_cost =
\* quantity x unit_cost, whichever operation wrote it, and every line item
\* without a unit_cost has no total_cost.
TotalCostIsProduct ==
  \A i \in DOMAIN items :
    ~items[i].deleted =>
      /\ items[i].total_cost # NONE
           => /\ items[i].unit_cost # NONE
              /\ items[i].total_cost = items[i].quantity * items[i].unit_cost
      /\ items[i].unit_cost = NONE => items[i].total_cost = NONE

(***************************************************************************)
(* C21  create_purchase and a unit mismatch                                *)
(***************************************************************************)
\* C21 as stated: a create_purchase whose line item has a unit other than
\* the canonical unit of its ingredient is answered with a validation error
\* (400, not an internal error), and no purchase row, no item row and no
\* purchase number of the tenant is left behind.  The only create requests
\* explored that fail are the ones with such an item.
CreateRejectsUnitMismatch ==
  [][(response'.op = "create_purchase" /\ response'.status_code # 200)
       => /\ response'.status_code = 400
          /\ response'.detail.kind = "validation"
          /\ purchases' = purchases
          /\ items' = items]_vars

(***************************************************************************)
(* C22  update_purchase: supplied fields, whole item set, rollback         *)
(***************************************************************************)
\* the live line items of purchase p, oldest first
LiveItems(I, p) ==
  SelectSeq(I, LAMBDA row : ~row.deleted /\ row.purchase_id = p)

\* what the caller says about a line item
Supplied(row) ==
  [ingredient_id |-> row.ingredient_id, quantity |-> row.quantity,
   unit |-> row.unit, unit_cost |-> row.unit_cost]

SuppliedItems(rows) == [k \in DOMAIN rows |-> Supplied(rows[k])]

\* the step is an accepted update of purchase p with body `data`
UpdateApplied(p, data) ==
  /\ purchases' =
       [purchases EXCEPT ![p] =
          [f \in DOMAIN @ |->
             IF f \in DOMAIN data.fields THEN data.fields[f] ELSE @[f]]]
  /\ IF data.has_items
       THEN SuppliedItems(LiveItems(items', p)) = SuppliedItems(data.items)
       ELSE items' = items
  /\ \A q \in DOMAIN purchases \ {p} : LiveItems(items', q) = LiveItems(items, q)
  /\ history' = history
  /\ attachments' = attachments

PurchaseUntouched(q) ==
  /\ purchases'[q] = purchases[q]
  /\ LiveItems(items', q) = LiveItems(items, q)
  /\ history'[q] = history[q]
  /\ attachments'[q] = attachments[q]

\* C23 as stated: a transition or portal operation on purchase P leaves the
\* status, fields, items, history and attachments of every other purchase Q
\* unchanged (so that operations on different purchases commute).
OtherPurchasesUntouched ==
  [][response'.op \in TransitionOps \cup PortalOps
       => \A q \in DOMAIN purchases \ {response'.req.purchase_id} :
            PurchaseUntouched(q)]_vars

(***************************************************************************)
(* C24  attach_legal_invoice                                               *)
(***************************************************************************)
IdsOf(list) == {list[i] : i \in DOMAIN list}

\* every listed purchase belongs to the token's supplier and its latest
\* invoiced history entry is a remision
AllListedAreRemisiones(token, list) ==
  /\ SupplierOfToken(token) # {}
  /\ \A p \in IdsOf(list) :
       /\ \E s \in SupplierOfToken(token) : PurchaseOfSupplier(DB, p, s)
       /\ DocumentTypeOf(DB, p) = "remision"

\* the step records the legal invoice on every listed purchase: the number in
\* the latest invoiced history row, one attachment row per stored file, and
\* nothing else
LegalInvoiceRecorded(data) ==
  /\ purchases' = purchases
  /\ items' = items
  /\ \A p \in PricePurchaseIds :
       IF p \in IdsOf(data.purchase_ids)
         THEN /\ history'[p] =
                   [history[p] EXCEPT ![LatestInvoiced(DB, p)].metadata =
                      [@ EXCEPT !.numero_factura_legal = data.legal_invoice_number]]
              /\ Len(attachments'[p]) = Len(attachments[p]) + StoredCount(data.files)
              /\ SubSeq(attachments'[p], 1, Len(attachments[p])) = attachments[p]
         ELSE /\ history'[p] = history[p]
              /\ attachments'[p] = attachments[p]

NothingWritten == UNCHANGED dbvars

\* C24 as stated: when every listed purchase belongs to the token's supplier
\* and its latest invoiced history entry is a remision, each listed purchase
\* gets the legal invoice recorded and one attachment row per uploaded file,
\* with every status and the number of history rows unchanged; when a listed
\* purchase fails the check nothing is written for any of them.
AttachAllOrNothing ==
  [][response'.op = "attach_legal_invoice"
       => \E data \in LegalAttachData :
            /\ data.purchase_ids = response'.req.arg
            /\ IF AllListedAreRemisiones(response'.req.caller, data.purchase_ids)
                 THEN response'.status_code = 200 /\ LegalInvoiceRecorded(data)
                 ELSE response'.status_code # 200 /\ NothingWritten]_vars

\* C24 amended: the same, for a list that names each purchase once; a list
\* that names a purchase twice is refused and nothing is written.
AttachAllOrNothingDistinct ==
  [][response'.op = "attach_legal_invoice"
       => \E data \in LegalAttachData :
            /\ data.purchase_ids = response'.req.arg
            /\ IF /\ AllListedAreRemisiones(response'.req.caller, data.purchase_ids)
                  /\ Cardinality(IdsOf(data.purchase_ids)) = Len(data.purchase_ids)
                 THEN response'.status_code = 200 /\ LegalInvoiceRecorded(data)
                 ELSE response'.status_code # 200 /\ NothingWritten]_vars

\* one legal invoice was attached to two delivery notes, with a stored file
LegalInvoiceOnTwoRemisiones ==
  /\ response.op = "attach_legal_invoice"
  /\ response.status_code = 200
  /\ Len(response.req.arg) = 2
  /\ \A p \in IdsOf(response.req.arg) :
       /\ attachments[p] # << >>
       /\ history[p][LatestInvoiced(DB, p)].metadata.numero_factura_legal = "FL1"

(***************************************************************************)
(* C25  attachments related to a history entry                             *)
(***************************************************************************)
\* the rows of the table that belong to the purchase read and lie at a
\* distance from changed_at that `near` accepts
RowsNear(near) ==
  {i \in DOMAIN vin.rows :
     /\ vin.rows[i].purchase_id = vin.purchase_id
     /\ TimeDiff(vin.rows[i].created_at, vin.changed_at) \in near}

\* the result holds exactly the rows selected, each as often as the table does
ResultIsExactly(selected) ==
  /\ Len(vout.result) = Cardinality(selected)
  /\ \A r \in DetailRow :
       Cardinality({k \in DOMAIN vout.result : vout.result[k] = r})
         = Cardinality({i \in selected : vin.rows[i] = r})

AuthenticationFailurePropagates ==
  [][(response'.op # "none" /\ response'.req.caller \notin Tenants)
       => /\ response'.status_code = 401
          /\ response'.detail.kind = "authentication"
          /\ response'.body = << >>
          /\ UNCHANGED dbvars]_vars

(***************************************************************************)
(* C27  paying once                                                        *)
(***************************************************************************)
\* the history rows of purchase p that enter `status`
EntriesInto(p, status) ==
  {i \in DOMAIN history[p] : history[p][i].to_status = status}

\* C27 as stated: along every sequence of accepted transitions a purchase
\* enters status paid at most once: pay-before-invoice and
\* pay-after-verification are never both taken by the same purchase.
PaidAtMostOnce ==
  \A p \in DOMAIN purchases : Cardinality(EntriesInto(p, "paid")) <= 1

(***************************************************************************)
(* C28  cancelled is terminal                                              *)
(***************************************************************************)
\* C28 as stated: once a purchase is cancelled no later operation of any
\* kind (transition, portal operation, update) changes its status, and no
\* further history row is written for it.
CancelledIsTerminal ==
  [][\A p \in DOMAIN purchases :
       purchases[p].status = "cancelled"
         => /\ purchases'[p].status = "cancelled"
            /\ history'[p] = history[p]]_vars

(***************************************************************************)
(* C29  purchase number generation                                         *)
(***************************************************************************)
\* the sequence numbers of the tenant's stored purchases
NumbersOf(tenant_id) ==
  {purchases[p].purchase_number :
     p \in {q \in DOMAIN purchases : purchases[q].tenant_id = tenant_id}}

LargestNumberOf(tenant_id) ==
  IF NumbersOf(tenant_id) = {} THEN 0
  ELSE CHOOSE n \in NumbersOf(tenant_id) : \A m \in NumbersOf(tenant_id) : m <= n

\* C29: the number create_purchase assigns is one more than the largest
\* sequence number among the tenant's stored purchases (1 when the tenant has
\* none), after any sequence of earlier creates and updates of purchase_number.
CreateTakesMaximum ==
  [][(response'.op = "create_purchase" /\ Len(purchases') = Len(purchases) + 1)
       => purchases'[Len(purchases')].purchase_number
            = LargestNumberOf(purchases'[Len(purchases')].tenant_id) + 1]_vars

(***************************************************************************)
(* C30  reception target                                                   *)
(***************************************************************************)
\* the answer to a receive request on the stored tables, no statement failing
ReceiveAnswer(tenant_id, purchase_id, data) ==
  transition_to_received(DB, tenant_id, purchase_id, data, FALSE)

ReceptionTarget(data) ==
  IF data.partial THEN "partially_received" ELSE "received"

\* C30: receive moves the purchase to partially_received when partial is true
\* and to received when partial is false; it is accepted exactly when that
\* target is in the table entry of the current status, so a partial reception
\* is accepted only from shipped, and a refused reception (a second partial
\* one from partially_received among them) leaves the purchase and its items
\* as they were.
ReceptionFollowsTable ==
  \A tenant_id \in Tenants : \A purchase_id \in DOMAIN purchases :
    \A data \in ReceiveData :
      PurchaseOfTenant(DB, purchase_id, tenant_id) =>
        LET r == ReceiveAnswer(tenant_id, purchase_id, data)
            current == purchases[purchase_id].status
            allowed == ReceptionTarget(data) \in STATE_TRANSITIONS[current]
        IN /\ (r.status_code = 200) <=> allowed
           /\ allowed => r.db.purchases[purchase_id].status = ReceptionTarget(data)
           /\ (allowed /\ data.partial) => current = "shipped"
           /\ ~allowed => /\ r.status_code = 400
                          /\ r.db = DB
           /\ current = "partially_received" => (allowed <=> ~data.partial)

\* a partial reception was accepted, and a second one has just been refused
SecondPartialRefused ==
  /\ response.op = "receive"
  /\ response.req.arg = "partially_received"
  /\ response.status_code = 400
  /\ response.req.purchase_id \in DOMAIN purchases
  /\ purchases[response.req.purchase_id].status = "partially_received"
  /\ \E i \in DOMAIN items : /\ items[i].purchase_id = response.req.purchase_id
                             /\ items[i].quantity_received = 2

(***************************************************************************)
(* C31  portal operations and their session counterparts                   *)
(***************************************************************************)
PortalTargetOf(op) ==
  CASE op = "update_purchase_prices" -> "pending"
    [] op = "invoice_purchase_from_portal" -> "invoiced"
    [] op = "ship_purchase_from_portal" -> "shipped"

SessionOpOf(op) ==
  CASE op = "update_purchase_prices" -> "complete_quotation"
    [] op = "invoice_purchase_from_portal" -> "invoice"
    [] op = "ship_purchase_from_portal" -> "ship"

\* the columns the transition is about: its status, its fields, its timestamp
TransitionFieldsOf(op) ==
  CASE op = "update_purchase_prices" -> {"status"}
    [] op = "invoice_purchase_from_portal" ->
         {"status", "invoice_number", "invoice_amount", "invoiced_at"}
    [] op = "ship_purchase_from_portal" ->
         {"status", "tracking_number", "shipped_at"}

\* the session request with the inputs of the portal request
SessionBodiesOf(op, data) ==
  IF op = "update_purchase_prices" THEN QuotationData ELSE {data}

LastRow(rows) == rows[Len(rows)]

SameOutcome(op, portal, session, p) ==
  /\ session.status_code = 200
  /\ \A f \in TransitionFieldsOf(op) :
       portal.db.purchases[p][f] = session.db.purchases[p][f]
  /\ Len(portal.db.history[p]) = Len(session.db.history[p])
  /\ LastRow(portal.db.history[p]).from_status
       = LastRow(session.db.history[p]).from_status
  /\ LastRow(portal.db.history[p]).to_status
       = LastRow(session.db.history[p]).to_status

\* C31: a portal operation is accepted from status s only if the table allows
\* s -> its target, and when accepted it leaves the purchase with the same
\* status, transition fields and timestamp, and a history row with the same
\* from_status and to_status, as the corresponding session operation applied
\* to the same purchase with the same inputs.
PortalIsSessionRestricted ==
  \A op \in PortalOps : \A token \in Tokens : \A p \in DOMAIN purchases :
    \A data \in DataOf(op) :
      LET portal == PortalHandle(op, DB, token, p, data, FALSE) IN
        portal.status_code = 200 =>
          /\ PortalTargetOf(op) \in STATE_TRANSITIONS[purchases[p].status]
          /\ \A body \in SessionBodiesOf(op, data) :
               SameOutcome(op, portal,
                           Handle(SessionOpOf(op), DB, purchases[p].tenant_id,
                                  p, body, FALSE), p)

(***************************************************************************)
(* C32  a price submission stays inside its purchase                       *)
(***************************************************************************)
\* quantity x unit_cost summed over the submitted entries naming an item of p
RECURSIVE OwnTotal(_, _)
OwnTotal(items_prices, p) ==
  IF items_prices = << >> THEN 0
  ELSE LET e == Head(items_prices)
       IN (IF e.id \in ItemIdsOf(DB, p) THEN items[e.id].quantity * e.unit_cost
           ELSE 0) + OwnTotal(Tail(items_prices), p)

PriceColumnsOf(row) ==
  [unit_cost |-> row.unit_cost, total_cost |-> row.total_cost, notes |-> row.notes]

\* C32: a portal price submission for purchase P changes unit_cost, total_cost
\* and notes only on line items of P; a submitted item id of another purchase
\* is not modified and adds nothing to P's total_amount.
PortalPricesStayInPurchase ==
  \A token \in Tokens : \A p \in DOMAIN purchases : \A data \in PortalPriceData :
    LET r == update_purchase_prices(DB, token, p, data, FALSE) IN
      r.status_code = 200 =>
        /\ \A i \in DOMAIN items :
             items[i].purchase_id # p
               => PriceColumnsOf(r.db.items[i]) = PriceColumnsOf(items[i])
        /\ r.db.purchases[p].total_amount = OwnTotal(data.items, p)

(***************************************************************************)
(* C33  prices after a quotation completion                                *)
(***************************************************************************)
\* the purchase left quotation through a completion (session or portal)
QuotationCompleted(p) ==
  \E i \in DOMAIN history[p] : /\ history[p][i].from_status = "quotation"
                               /\ history[p][i].to_status = "pending"

\* C33: whenever a purchase is in a status other than quotation after a
\* quotation completion, every line item of the purchase has a unit_cost; a
\* completion that prices only some of the items, or none, does not move the
\* purchase to pending.
CompletedQuotationIsPriced ==
  \A p \in DOMAIN purchases :
    (QuotationCompleted(p) /\ purchases[p].status # "quotation")
      => \A i \in ItemIdsOf(DB, p) : items[i].unit_cost # NONE

(***************************************************************************)
(* C34  the answer of update_purchase                                      *)
(***************************************************************************)
\* C34: the purchase returned by a successful update_purchase (fields and
\* items) equals the purchase a read issued after the update has committed
\* returns, and not the state from before the update.
UpdateReturnsWhatItWrote ==
  (response.op = "update_purchase" /\ response.status_code = 200)
    => response.body
         = get_purchase_by_id(DB, response.req.caller,
                              response.req.purchase_id).body

(***************************************************************************)
(* C35  statuses no transition writes                                      *)
(***************************************************************************)
UnwrittenStatuses == {"preparing", "overdue"}

\* C35: no transition operation of the tracking service or of the supplier
\* portal sets a purchase's status to preparing or to overdue: from quotation
\* and with those operations only, no purchase is ever in one of the two and
\* no history row leaves or enters one of them.
PreparingAndOverdueUnreachable ==
  \A p \in DOMAIN purchases :
    /\ purchases[p].status \notin UnwrittenStatuses
    /\ \A i \in DOMAIN history[p] :
         /\ history[p][i].from_status \notin UnwrittenStatuses
         /\ history[p][i].to_status \notin UnwrittenStatuses

\* a purchase created as a quotation has gone the whole way to verified
QuotationWentToVerified ==
  \E p \in DOMAIN purchases :
    /\ purchases[p].status = "verified"
    /\ Len(history[p]) >= 6
    /\ history[p][1].from_status = "quotation"

(***************************************************************************)
(* C36  blobs and attachment rows                                          *)
(***************************************************************************)
\* C36: after any operation that uploads or deletes files (a transition with
\* files, attach_legal_invoice, delete attachment), whether it succeeds or
\* fails and rolls back, every stored blob is referenced by an attachment row
\* and every attachment row references a stored blob.
BlobsMatchRows ==
  /\ \A key \in blobs : key \in RowKeys
  /\ \A key \in RowKeys : key \in blobs

(***************************************************************************)
(* C37  single use of a magic-link token                                    *)
(* Whenever a verification establishes a session, the token row it          *)
(* presented was still unused: a token whose use is already committed       *)
(* never establishes a second session, whatever other verification runs     *)
(* at the same time.                                                        *)
(***************************************************************************)
TokenEstablishesOnce ==
  [][\A r \in Requests :
       (/\ txs[r].pc = "marked"
        /\ txs[r].op \in VerifyOps
        /\ txs'[r].pc = "done"
        /\ txs'[r].status_code = 200)
         => ~magic_tokens[txs[r].token].used]_vars

(***************************************************************************)
(* C38  one active session per user                                         *)
(* In every reachable state each user has at most one active session, and   *)
(* the middleware rejects every session that is no longer active.           *)
(***************************************************************************)
OneActiveSessionPerUser ==
  /\ \A user_id \in Users :
       Cardinality(ActiveSessionsOf(sessions, user_id)) <= 1
  /\ \A s \in DOMAIN sessions :
       ~sessions[s].is_active => ~session_validation_middleware(sessions, s)

(***************************************************************************)
(* C39  sessions bind members                                               *)
(* Every active session names a user and a tenant that table                *)
(* tenant_members links.                                                    *)
(***************************************************************************)
ActiveSessionIsMember ==
  \A s \in DOMAIN sessions :
    sessions[s].is_active =>
      <<sessions[s].user_id, sessions[s].tenant_id>> \in tenant_members

(***************************************************************************)
(* C40  invoice due date and balance                                        *)
(* As stated: with dates that parse, a successful invoice transition sets   *)
(* payment_due_date to invoice date + the purchase's credit_days when that  *)
(* is positive, else to the supplied due date if there is one, else to      *)
(* invoice date + the request's credit_days if that was sent, else to       *)
(* nothing; payment_balance and total_amount are the invoice amount, the    *)
(* balance 0 without an amount.                                             *)
(***************************************************************************)
DueDateAsStated ==
  (/\ vout.done
   /\ vout.status_code = 200
   /\ vin.invoice_date \in InvoiceDates
   /\ vin.payment_due_date \in InvoiceDates \cup {NONE})
    => /\ vout.payment_due_date =
            IF vin.purchase_credit_days # NONE /\ vin.purchase_credit_days > 0
            THEN vin.invoice_date + vin.purchase_credit_days
            ELSE IF vin.payment_due_date # NONE
                 THEN vin.payment_due_date
                 ELSE IF vin.credit_days # NONE
                      THEN vin.invoice_date + vin.credit_days
                      ELSE NONE
       /\ vout.payment_balance =
            IF vin.invoice_amount = NONE THEN 0 ELSE vin.invoice_amount
       /\ vout.total_amount = vin.invoice_amount

\* C40 as the code has it: request credit_days of 0 count as not sent, an
\* invoice date that does not parse is the current day, and a due date that
\* does not parse is no due date
DueDateAsComputed ==
  (vout.done /\ vout.status_code = 200)
    => LET invoice_dt == IF vin.invoice_date \in InvoiceDates
                         THEN vin.invoice_date ELSE InvoiceNow
           supplied == IF vin.payment_due_date \in InvoiceDates
                       THEN vin.payment_due_date ELSE NONE
       IN /\ vout.payment_due_date =
               IF vin.purchase_credit_days \notin {NONE, 0}
               THEN invoice_dt + vin.purchase_credit_days
               ELSE IF supplied # NONE
                    THEN supplied
                    ELSE IF vin.credit_days \notin {NONE, 0}
                         THEN invoice_dt + vin.credit_days
                         ELSE NONE
          /\ vout.payment_balance =
               IF vin.invoice_amount = NONE THEN 0 ELSE vin.invoice_amount
          /\ vout.total_amount = vin.invoice_amount
          /\ vout.invoice_date = invoice_dt

\* a purchase with credit days is invoiced with another due date supplied,
\* and the due date written is the computed one
PurchaseCreditOverrides ==
  /\ vout.done
  /\ vout.status_code = 200
  /\ vin.purchase_credit_days \notin {NONE, 0}
  /\ vin.invoice_date \in InvoiceDates
  /\ vin.payment_due_date \in InvoiceDates
  /\ vout.payment_due_date = vin.invoice_date + vin.purchase_credit_days
  /\ vout.payment_due_date # vin.payment_due_date

====
